---- MODULE Spec2Model ----
(***************************************************************************)
(* Verification model of the declarative test engine's pure utilities:     *)
(* the interpolation engine and tag filter (utils/data-loader), the deep   *)
(* comparison utilities (utils/helpers) and the boundary generator         *)
(* (utils/boundary-generator).                                             *)
(*                                                                         *)
(* JavaScript values are records tagged by their typeof/shape:             *)
(*   [t |-> "undefined"], [t |-> "null"], [t |-> "boolean", v |-> b],      *)
(*   [t |-> "number", v |-> n], [t |-> "string", v |-> <<chars>>],         *)
(*   [t |-> "function"], [t |-> "array", v |-> <<values>>],                *)
(*   [t |-> "object", v |-> [own key |-> value]]                           *)
(* Strings that the code scans are sequences of one-character strings.     *)
(***************************************************************************)
EXTENDS Integers, Sequences, FiniteSets

VARIABLES input, output, pc

vars == <<input, output, pc>>

(***************************************************************************)
(* Bounds of the model                                                     *)
(***************************************************************************)
MaxParts == 3
MaxArrLen == 2
MaxTests == 2
MaxTagLen == 2
MaxPathLen == 3
IntRange == 4
MaxLen == 5

(***************************************************************************)
(* JavaScript values                                                       *)
(***************************************************************************)
Undefined == [t |-> "undefined"]
Null == [t |-> "null"]
Bool(b) == [t |-> "boolean", v |-> b]
Num(n) == [t |-> "number", v |-> n]
Str(s) == [t |-> "string", v |-> s]
Arr(s) == [t |-> "array", v |-> s]
Obj(f) == [t |-> "object", v |-> f]
NativeFunction == [t |-> "function"]

IsNullish(x) == x.t \in {"undefined", "null"}

\* String(Object): the text a native function converts to.
NativeFunctionText ==
  << "f","u","n","c","t","i","o","n"," ","O","b","j","e","c","t","(",")",
     " ","{"," ","[","n","a","t","i","v","e"," ","c","o","d","e","]"," ","}" >>

\* JsToString of the values a replace callback can return here.
JsToString(x) == IF x.t = "string" THEN x.v ELSE NativeFunctionText

(***************************************************************************)
(* data-loader: interpolate                                                *)
(***************************************************************************)
\* \w of INTERPOLATION_RE: [A-Za-z0-9_], restricted to the characters used.
WordChars == {"a", "b", "c", "n", "o", "r", "s", "t", "u", "x", "_", "7"}

ConstructorKey == <<"c","o","n","s","t","r","u","c","t","o","r">>

\* What a plain object literal inherits: vars is created as {} and as
\* {...vars, ...dataInjection}, so vars[key] reaches Object.prototype.
\* "constructor" stands for the inherited names (toString, valueOf, ...).
ObjectPrototype == [k \in {ConstructorKey} |-> NativeFunction]

\* vars[key]: own property, else inherited property, else undefined.
Lookup(vs, key) ==
  IF key \in DOMAIN vs THEN Str(vs[key])
  ELSE IF key \in DOMAIN ObjectPrototype THEN ObjectPrototype[key]
  ELSE Undefined

\* Length of the maximal run of word characters of s starting at p.
RECURSIVE WordRun(_, _)
WordRun(s, p) ==
  IF p <= Len(s) /\ s[p] \in WordChars THEN 1 + WordRun(s, p + 1) ELSE 0

\* Length of the match of \{\{(\w+)\}\} anchored at p, 0 when none.  \w+ is
\* greedy and only the maximal run can be followed by "}".
MatchAt(s, p) ==
  IF p + 1 <= Len(s) /\ s[p] = "{" /\ s[p + 1] = "{"
  THEN LET n == WordRun(s, p + 2) IN
       IF n >= 1 /\ p + 3 + n <= Len(s)
          /\ s[p + 2 + n] = "}" /\ s[p + 3 + n] = "}"
       THEN n + 4 ELSE 0
  ELSE 0

\* The replace callback (_, key) => vars[key] ?? `{{${key}}}`
\* The callback with an empty fallback: (_, key) => vars[key] ?? ''
CallbackDropsUnknown(vs, key) ==
  LET val == Lookup(vs, key) IN
  IF IsNullish(val) THEN <<>> ELSE JsToString(val)

Callback(vs, key) ==
  LET val == Lookup(vs, key) IN
  IF IsNullish(val) THEN <<"{", "{">> \o key \o <<"}", "}">> ELSE JsToString(val)

\* String.prototype.replace with the global regex: leftmost matches, left to
\* right, the scan resuming after each match; replacements are not rescanned.
RECURSIVE Replace(_, _, _)
Replace(s, p, vs) ==
  IF p > Len(s) THEN <<>>
  ELSE LET m == MatchAt(s, p) IN
       IF m = 0 THEN <<s[p]>> \o Replace(s, p + 1, vs)
       ELSE Callback(vs, SubSeq(s, p + 2, p + m - 3)) \o Replace(s, p + m, vs)

\* result[k] = ... on a fresh {}: every key becomes an own property except
\* "__proto__", which runs the inherited setter and defines no own property.
AssignedKeys(keys) == keys \ {"__proto__"}

RECURSIVE interpolate(_, _)
interpolate(obj, vs) ==
  IF obj.t = "string" THEN Str(Replace(obj.v, 1, vs))
  ELSE IF obj.t = "array"
    THEN Arr([i \in 1..Len(obj.v) |-> interpolate(obj.v[i], vs)])
  ELSE IF obj.t = "object"
    THEN Obj([k \in AssignedKeys(DOMAIN obj.v) |-> interpolate(obj.v[k], vs)])
  ELSE obj

(***************************************************************************)
(* Inputs of the interpolation specification                               *)
(***************************************************************************)
PlaceholderA == <<"{", "{", "a", "}", "}">>
PlaceholderB == <<"{", "{", "b", "}", "}">>
PlaceholderConstructor == <<"{", "{">> \o ConstructorKey \o <<"}", "}">>

Pieces ==
  { PlaceholderA, PlaceholderB, <<"{", "{">>, <<"}", "}">>,
    <<"{">>, <<"}">>, <<"a">>, <<"-">> }

RECURSIVE Concats(_)
Concats(n) ==
  IF n = 0 THEN {<<>>}
  ELSE LET prev == Concats(n - 1) IN
       prev \cup {s \o q : s \in prev, q \in Pieces}

InputStrings ==
  Concats(MaxParts) \cup {PlaceholderConstructor,
                          <<"-">> \o PlaceholderConstructor \o PlaceholderA}

IdKeys == {<<"a">>, <<"b">>}
VarValues == {<<>>, <<"b">>, PlaceholderB}
VarMaps == UNION {[K -> VarValues] : K \in SUBSET IdKeys}

\* Nested documents: leaves, containers of leaves, containers of those.
SeqsUpTo(S, n) == UNION {[1..m -> S] : m \in 0..n}

TreeLeaves ==
  {Null, Bool(TRUE), Num(7), Str(PlaceholderA), Str(<<"-">> \o PlaceholderB)}
TreeKeys == {"k", "{{a}}", "__proto__"}
TreeArrays == {Arr(s) : s \in SeqsUpTo(TreeLeaves, MaxArrLen)}
TreeObjects == {Obj(f) : f \in UNION {[K -> TreeLeaves] : K \in SUBSET TreeKeys}}
TreeContainers == TreeArrays \cup TreeObjects
TreeNested ==
  {Arr(<<c>>) : c \in TreeContainers}
    \cup {Obj([k \in {"k"} |-> c]) : c \in TreeContainers}
InputTrees == TreeLeaves \cup TreeContainers \cup TreeNested

InputDocuments == {Str(s) : s \in InputStrings} \cup InputTrees

(***************************************************************************)
(* Specification of interpolate: one call, then a second call on the       *)
(* result of the first with the same variables.                            *)
(***************************************************************************)
NoOutput == [fn |-> "none"]

InitInterpolate ==
  /\ input \in {[obj |-> d, vars |-> vs] : d \in InputDocuments, vs \in VarMaps}
  /\ output = NoOutput
  /\ pc = "start"

Interpolate ==
  /\ pc = "start"
  /\ output' = [fn |-> "interpolate", ret |-> interpolate(input.obj, input.vars)]
  /\ pc' = "done"
  /\ UNCHANGED input

InterpolateAgain ==
  /\ pc = "done"
  /\ output.fn = "interpolate"
  /\ output' = [fn |-> "interpolate", first |-> output.ret,
                ret |-> interpolate(output.ret, input.vars)]
  /\ pc' = "again"
  /\ UNCHANGED input

NextInterpolate == Interpolate \/ InterpolateAgain

SpecInterpolate == InitInterpolate /\ [][NextInterpolate]_vars

(***************************************************************************)
(* Placeholders of a string, stated without the scan: p starts a           *)
(* placeholder when "{{", one or more word characters and "}}" follow.     *)
(***************************************************************************)
IdLenAt(s, p) ==
  {n \in 1..Len(s) :
     /\ p + 3 + n <= Len(s)
     /\ s[p] = "{" /\ s[p + 1] = "{"
     /\ \A i \in 1..n : s[p + 1 + i] \in WordChars
     /\ s[p + 2 + n] = "}" /\ s[p + 3 + n] = "}"}

IsPlaceholderAt(s, p) == IdLenAt(s, p) # {}
PlaceholderStarts(s) == {p \in 1..Len(s) : IsPlaceholderAt(s, p)}
PlaceholderId(s, p) ==
  SubSeq(s, p + 2, p + 1 + (CHOOSE n \in IdLenAt(s, p) : TRUE))
PlaceholderIds(s) == {PlaceholderId(s, p) : p \in PlaceholderStarts(s)}

\* The text the interpolation contract asks for: each placeholder whose
\* identifier is a key of the mapping becomes its value, every other
\* character, unknown placeholders included, is kept.
RECURSIVE ClaimedText(_, _, _)
ClaimedText(s, p, vs) ==
  IF p > Len(s) THEN <<>>
  ELSE IF IsPlaceholderAt(s, p)
    THEN LET id == PlaceholderId(s, p)
             e == p + Len(id) + 3
         IN (IF id \in DOMAIN vs THEN vs[id] ELSE SubSeq(s, p, e))
              \o ClaimedText(s, e + 1, vs)
  ELSE <<s[p]>> \o ClaimedText(s, p + 1, vs)

StringCall == pc = "done" /\ input.obj.t = "string"

\* C1: interpolate(s, vars) replaces every {{k}} with k a key of vars by
\* vars[k] and leaves every {{k}} with k not a key of vars, and every other
\* character, as it is.
C1_InterpolateResolvesExactlyTheKeys ==
  StringCall =>
    output.ret = Str(ClaimedText(input.obj.v, 1, input.vars))

\* The same statement for the strings none of whose identifiers is a name
\* that a plain object inherits.
InterpolateResolvesOwnKeysOffPrototype ==
  (StringCall /\ PlaceholderIds(input.obj.v) \cap DOMAIN ObjectPrototype = {}) =>
    output.ret = Str(ClaimedText(input.obj.v, 1, input.vars))

SecondCall == pc = "again" /\ input.obj.t = "string"

\* C2 (as claimed): when every placeholder identifier of s is a key of vars,
\* interpolate(interpolate(s, vars), vars) = interpolate(s, vars).
C2_IdempotentWhenAllIdsAreKeys ==
  (SecondCall /\ PlaceholderIds(input.obj.v) \subseteq DOMAIN input.vars) =>
    output.ret = output.first

\* C2 (amended): when no placeholder of interpolate(s, vars) has an
\* identifier that vars[k] resolves, a second pass returns it unchanged.
NothingLeftToResolve(s, vs) ==
  \A id \in PlaceholderIds(s) : IsNullish(Lookup(vs, id))

C2_IdempotentOnceNothingResolves ==
  (SecondCall /\ NothingLeftToResolve(output.first.v, input.vars)) =>
    output.ret = output.first

\* C2 witness: the first pass resolved a placeholder, its result still holds
\* an unresolvable one, and the second pass has run.
C2_Witness ==
  /\ SecondCall
  /\ NothingLeftToResolve(output.first.v, input.vars)
  /\ output.first # input.obj
  /\ PlaceholderIds(input.obj.v) \cap DOMAIN input.vars # {}
  /\ PlaceholderStarts(output.first.v) # {}

\* Same shape: same tags, same array lengths, same own keys, and equal
\* leaves wherever the leaf is not a string.
RECURSIVE SameShape(_, _)
SameShape(x, y) ==
  /\ x.t = y.t
  /\ CASE x.t = "array" ->
            /\ Len(x.v) = Len(y.v)
            /\ \A i \in 1..Len(x.v) : SameShape(x.v[i], y.v[i])
       [] x.t = "object" ->
            /\ DOMAIN x.v = DOMAIN y.v
            /\ \A k \in DOMAIN x.v : SameShape(x.v[k], y.v[k])
       [] x.t = "string" -> TRUE
       [] OTHER -> x = y

\* C3: the result of interpolate has the containers of the input, with the
\* same keys, the same array lengths and order, and the same non-string
\* leaves.
C3_InterpolatePreservesShape ==
  pc = "done" => SameShape(input.obj, output.ret)

RECURSIVE HasKey(_, _)
HasKey(x, key) ==
  CASE x.t = "array" -> \E i \in 1..Len(x.v) : HasKey(x.v[i], key)
    [] x.t = "object" ->
         key \in DOMAIN x.v \/ \E k \in DOMAIN x.v : HasKey(x.v[k], key)
    [] OTHER -> FALSE

\* The same statement for the documents that hold no "__proto__" key.
InterpolatePreservesShapeOffProto ==
  (pc = "done" /\ ~HasKey(input.obj, "__proto__")) =>
    SameShape(input.obj, output.ret)

(***************************************************************************)
(* data-loader: filterByTags                                               *)
(***************************************************************************)
\* Array.prototype.includes on a list of tag names.
RECURSIVE includes(_, _)
includes(arr, x) ==
  IF arr = <<>> THEN FALSE
  ELSE IF Head(arr) = x THEN TRUE ELSE includes(Tail(arr), x)

\* tags.every(...): the AND reading of the filter.
RECURSIVE everyTagIncluded(_, _)
everyTagIncluded(tags, filterTags) ==
  IF tags = <<>> THEN TRUE
  ELSE IF includes(filterTags, Head(tags))
    THEN everyTagIncluded(Tail(tags), filterTags) ELSE FALSE

\* tags.some((tag) => filterTags.includes(tag))
RECURSIVE someTagIncluded(_, _)
someTagIncluded(tags, filterTags) ==
  IF tags = <<>> THEN FALSE
  ELSE IF includes(filterTags, Head(tags))
    THEN TRUE ELSE someTagIncluded(Tail(tags), filterTags)

\* The filter callback: t.tags?.some(...) is undefined, hence falsy, when
\* the test declares no tags.
keepTest(tc, filterTags) ==
  IF IsNullish(tc.tags) THEN FALSE ELSE someTagIncluded(tc.tags.v, filterTags)

\* Array.prototype.filter
RECURSIVE filter(_, _)
filter(tests, filterTags) ==
  IF tests = <<>> THEN <<>>
  ELSE IF keepTest(Head(tests), filterTags)
    THEN <<Head(tests)>> \o filter(Tail(tests), filterTags)
    ELSE filter(Tail(tests), filterTags)

filterByTags(tests, filterTags) ==
  IF Len(filterTags) = 0 THEN tests ELSE filter(tests, filterTags)

(***************************************************************************)
(* Specification of filterByTags                                           *)
(***************************************************************************)
TagNames == {"smoke", "api"}
TagLists == {Undefined} \cup {Arr(s) : s \in SeqsUpTo(TagNames, MaxTagLen)}

\* Tests are named by their position in the suite document.
TestLists ==
  UNION {{[i \in 1..n |-> [name |-> i, tags |-> tl[i]]] : tl \in [1..n -> TagLists]}
           : n \in 0..MaxTests}

InitFilter ==
  /\ input \in {[tests |-> ts, filterTags |-> ft] :
                  ts \in TestLists, ft \in SeqsUpTo(TagNames, MaxTagLen)}
  /\ output = NoOutput
  /\ pc = "start"

FilterByTags ==
  /\ pc = "start"
  /\ output' = [fn |-> "filterByTags",
                ret |-> filterByTags(input.tests, input.filterTags)]
  /\ pc' = "done"
  /\ UNCHANGED input

NextFilter == FilterByTags

SpecFilter == InitFilter /\ [][NextFilter]_vars

\* The positions of the tests that declare at least one requested tag.
PassingTests(tests, requested) ==
  {i \in 1..Len(tests) :
     /\ tests[i].tags.t = "array"
     /\ \E j \in 1..Len(tests[i].tags.v) : \E k \in 1..Len(requested) :
          tests[i].tags.v[j] = requested[k]}

\* C4: with no requested tag the result is the tests unchanged; otherwise it
\* is the tests that declare at least one requested tag, each once, in the
\* order of the document; a test without tags is excluded.
C4_FilterByTagsKeepsExactlyTheTaggedTests ==
  pc = "done" =>
    LET tests == input.tests
        r == output.ret
    IN IF input.filterTags = <<>> THEN r = tests
       ELSE /\ {r[j].name : j \in 1..Len(r)} = PassingTests(tests, input.filterTags)
            /\ \A j \in 1..Len(r) : r[j] = tests[r[j].name]
            /\ \A j \in 1..Len(r) - 1 : r[j].name < r[j + 1].name

\* C4 witness: a non-empty filter kept one test and dropped three kinds of
\* test: one with other tags, one with an empty tag list, one with no tags.
C4_Witness ==
  /\ pc = "done"
  /\ input.filterTags # <<>>
  /\ Len(input.tests) = 2
  /\ Len(output.ret) = 1
  /\ output.ret[1] = input.tests[2]
  /\ Len(input.tests[2].tags.v) = 2
  /\ IsNullish(input.tests[1].tags)

(***************************************************************************)
(* helpers: property access on JSON values                                 *)
(*                                                                         *)
(* Object keys and path segments are sequences of characters.  Two values  *)
(* parsed from two JSON texts share no container, so === on two arrays or  *)
(* two objects is true only for one and the same reference; the calls take *)
(* a flag telling whether both arguments are that same reference.          *)
(***************************************************************************)
TypeError == [t |-> "TypeError"]

KeyA == <<"a">>
KeyZero == <<"0">>
KeyLength == <<"l", "e", "n", "g", "t", "h">>
Digits == <<"0", "1", "2", "3", "4", "5", "6", "7", "8", "9">>

\* The property name of array index i.
IndexKey(i) == <<Digits[i + 1]>>

IsContainer(x) == x.t \in {"array", "object"}

\* typeof
TypeOf(x) ==
  IF x.t \in {"null", "array", "object"} THEN "object" ELSE x.t

\* a === b for values that are not one and the same reference.
StrictEquals(a, b) == ~IsContainer(a) /\ a = b

\* Object.keys
ObjectKeys(x) ==
  IF x.t = "array" THEN {IndexKey(i) : i \in 0..Len(x.v) - 1} ELSE DOMAIN x.v

\* The property a container inherits under key, undefined when none.
Inherited(key) ==
  IF key \in DOMAIN ObjectPrototype THEN ObjectPrototype[key] ELSE Undefined

\* x[key] for a string key: reading a property of null or undefined throws;
\* an array owns its indices and "length"; a property that is not an own
\* property is looked up in the prototype.
GetProperty(x, key) ==
  IF IsNullish(x) THEN TypeError
  ELSE IF x.t = "object"
    THEN IF key \in DOMAIN x.v THEN x.v[key] ELSE Inherited(key)
  ELSE IF x.t = "array"
    THEN IF key = KeyLength THEN Num(Len(x.v))
         ELSE IF \E i \in 0..Len(x.v) - 1 : key = IndexKey(i)
           THEN x.v[(CHOOSE i \in 0..Len(x.v) - 1 : key = IndexKey(i)) + 1]
         ELSE Inherited(key)
  ELSE Undefined

\* b[i] for a number i >= 0 on an array.
GetIndex(x, i) == IF i >= 0 /\ i < Len(x.v) THEN x.v[i + 1] ELSE Undefined

(***************************************************************************)
(* helpers: deepContains                                                   *)
(***************************************************************************)
\* superset.includes(item): the match by identity instead of by structure.
arrayIncludes(superset, item) ==
  \E i \in 1..Len(superset.v) : StrictEquals(superset.v[i], item)

RECURSIVE deepContains(_, _)

\* superset.some((sup) => deepContains(sup, item))
arraySome(superset, item) ==
  \E i \in 1..Len(superset.v) : deepContains(superset.v[i], item)

deepContains(superset, subset) ==
  IF StrictEquals(subset, superset) THEN TRUE
  ELSE IF IsNullish(subset) THEN StrictEquals(superset, subset)
  ELSE IF TypeOf(subset) # "object" THEN StrictEquals(superset, subset)
  ELSE IF subset.t = "array"
    THEN IF superset.t # "array" THEN FALSE
         ELSE \A i \in 1..Len(subset.v) : arraySome(superset, subset.v[i])
  ELSE IF TypeOf(superset) # "object" \/ superset.t = "null" THEN FALSE
  ELSE \A key \in ObjectKeys(subset) :
         deepContains(GetProperty(superset, key), GetProperty(subset, key))

(***************************************************************************)
(* helpers: deepEqual                                                      *)
(***************************************************************************)
RECURSIVE deepEqual(_, _)
deepEqual(a, b) ==
  IF StrictEquals(a, b) THEN TRUE
  ELSE IF a.t = "null" \/ b.t = "null" THEN FALSE
  ELSE IF TypeOf(a) # TypeOf(b) THEN FALSE
  ELSE IF a.t = "array" /\ b.t = "array"
    THEN IF Len(a.v) # Len(b.v) THEN FALSE
         ELSE \A i \in 1..Len(a.v) : deepEqual(a.v[i], GetIndex(b, i - 1))
  ELSE IF TypeOf(a) = "object" /\ TypeOf(b) = "object"
    THEN IF Cardinality(ObjectKeys(a)) # Cardinality(ObjectKeys(b)) THEN FALSE
         ELSE \A key \in ObjectKeys(a) :
                deepEqual(GetProperty(a, key), GetProperty(b, key))
  ELSE FALSE

(***************************************************************************)
(* helpers: deepGet                                                        *)
(***************************************************************************)
\* path.split('.'): always at least one segment, empty segments kept.
RECURSIVE SplitFrom(_, _, _)
SplitFrom(s, p, seg) ==
  IF p > Len(s) THEN <<seg>>
  ELSE IF s[p] = "." THEN <<seg>> \o SplitFrom(s, p + 1, <<>>)
  ELSE SplitFrom(s, p + 1, Append(seg, s[p]))

split(path) == SplitFrom(path, 1, <<>>)

DigitValue(c) == CHOOSE d \in 0..9 : Digits[d + 1] = c
IsDigit(c) == \E d \in 0..9 : Digits[d + 1] = c
AllDigits(s) == \A i \in 1..Len(s) : IsDigit(s[i])

RECURSIVE Decimal(_)
Decimal(s) ==
  IF s = <<>> THEN 0
  ELSE 10 * Decimal(SubSeq(s, 1, Len(s) - 1)) + DigitValue(s[Len(s)])

\* Number(key) on a string of letters, digits and "-": the empty string is
\* 0, a run of digits is its decimal value, "-" and digits is the negated
\* value (-0 for zero, which indexes like 0), anything else is NaN.
NumberOf(key) ==
  IF key = <<>> THEN [nan |-> FALSE, v |-> 0]
  ELSE IF AllDigits(key) THEN [nan |-> FALSE, v |-> Decimal(key)]
  ELSE IF key[1] = "-" /\ Len(key) >= 2 /\ AllDigits(Tail(key))
    THEN [nan |-> FALSE, v |-> 0 - Decimal(Tail(key))]
  ELSE [nan |-> TRUE, v |-> 0]

\* The reducer without its first line: typeof null is "object".
stepNoNullGuard(current, key) ==
  IF current.t = "array"
    THEN LET idx == NumberOf(key) IN
         IF idx.nan THEN Undefined ELSE GetIndex(current, idx.v)
  ELSE IF TypeOf(current) = "object" THEN GetProperty(current, key)
  ELSE Undefined

\* The reducer of deepGet.
step(current, key) ==
  IF IsNullish(current) THEN Undefined
  ELSE IF current.t = "array"
    THEN LET idx == NumberOf(key) IN
         IF idx.nan THEN Undefined ELSE GetIndex(current, idx.v)
  ELSE IF TypeOf(current) = "object" THEN GetProperty(current, key)
  ELSE Undefined

\* Array.prototype.reduce; an exception of the reducer ends the call.
RECURSIVE reduce(_, _)
reduce(current, keys) ==
  IF keys = <<>> THEN current
  ELSE LET nxt == step(current, Head(keys)) IN
       IF nxt = TypeError THEN TypeError ELSE reduce(nxt, Tail(keys))

deepGet(obj, path) == reduce(obj, split(path))

(***************************************************************************)
(* Specification of the deep-comparison utilities                          *)
(***************************************************************************)
DeepScalars == {Null, Bool(TRUE), Num(1), Str(<<"s">>)}
DeepObjectKeys == {KeyA, KeyZero, KeyLength}
DeepArrays == {Arr(s) : s \in SeqsUpTo(DeepScalars, MaxArrLen)}
DeepObjects ==
  {Obj(f) : f \in UNION {[K -> DeepScalars] : K \in SUBSET DeepObjectKeys}}
SmallContainers ==
  { Arr(<<>>), Obj(<<>>), Arr(<<Num(1)>>),
    Obj([k \in {KeyLength} |-> Num(1)]), Obj([k \in {KeyA} |-> Num(1)]) }
DeepNested ==
  {Arr(<<c>>) : c \in SmallContainers}
    \cup {Obj([k \in {KeyA} |-> c]) : c \in SmallContainers}
    \cup {Arr(<<c, d>>) : c \in SmallContainers, d \in SmallContainers}
DeepValues == DeepScalars \cup DeepArrays \cup DeepObjects \cup DeepNested

GetLeaves == {Null, Num(1), Str(<<"s">>)}
GetKeys == {KeyA, KeyZero}
GetContainers ==
  {Arr(s) : s \in SeqsUpTo(GetLeaves, MaxArrLen)}
    \cup {Obj(f) : f \in UNION {[K -> GetLeaves] : K \in SUBSET GetKeys}}
GetDocuments ==
  GetLeaves \cup GetContainers
    \cup {Arr(<<c>>) : c \in GetContainers}
    \cup {Obj([k \in {KeyA} |-> c]) : c \in GetContainers}
    \cup { Obj([k \in {<<>>} |-> Num(1)]),
           Obj([k \in {<<>>} |-> Obj([j \in {<<>>} |-> Num(1)])]) }
PathChars == {"a", "0", "1", ".", "-"}

InitDeep ==
  /\ \/ input \in {[kind |-> "pair", a |-> x, b |-> y, same |-> FALSE] :
                     x \in DeepValues, y \in DeepValues}
     \/ input \in {[kind |-> "pair", a |-> x, b |-> x, same |-> TRUE] :
                     x \in DeepValues}
     \/ input \in {[kind |-> "get", obj |-> d, path |-> q] :
                     d \in GetDocuments, q \in SeqsUpTo(PathChars, MaxPathLen)}
  /\ output = NoOutput
  /\ pc = "start"

\* deepContains(input.a, input.b); one reference on both sides is settled
\* by the first line, subset === superset.
DeepContains ==
  /\ pc = "start"
  /\ input.kind = "pair"
  /\ output' = [fn |-> "deepContains",
                ret |-> IF input.same THEN TRUE
                        ELSE deepContains(input.a, input.b)]
  /\ pc' = "done"
  /\ UNCHANGED input

\* deepEqual(input.a, input.b); one reference on both sides is settled by
\* the first line, a === b.
DeepEqual ==
  /\ pc = "start"
  /\ input.kind = "pair"
  /\ output' = [fn |-> "deepEqual",
                ret |-> IF input.same THEN TRUE
                        ELSE deepEqual(input.a, input.b)]
  /\ pc' = "done"
  /\ UNCHANGED input

\* deepEqual(input.b, input.a), after deepEqual(input.a, input.b).
DeepEqualSwapped ==
  /\ pc = "done"
  /\ output.fn = "deepEqual"
  /\ output' = [fn |-> "deepEqual", ret |-> output.ret,
                swapped |-> IF input.same THEN TRUE
                            ELSE deepEqual(input.b, input.a)]
  /\ pc' = "swapped"
  /\ UNCHANGED input

DeepGet ==
  /\ pc = "start"
  /\ input.kind = "get"
  /\ output' = [fn |-> "deepGet", ret |-> deepGet(input.obj, input.path)]
  /\ pc' = "done"
  /\ UNCHANGED input

NextDeep == DeepContains \/ DeepEqual \/ DeepEqualSwapped \/ DeepGet

SpecDeep == InitDeep /\ [][NextDeep]_vars

Called(fn) == pc = "done" /\ output.fn = fn

\* C5: deepContains(x, x') is true for every JSON value x and every
\* structurally identical copy x' of x.
C5_DeepContainsReflexive ==
  (Called("deepContains") /\ input.a = input.b) => output.ret = TRUE

\* C5 witness: a nested container was compared with a copy of itself.
C5_Witness ==
  /\ Called("deepContains")
  /\ ~input.same
  /\ input.a = input.b
  /\ input.a \in DeepNested
  /\ Len(input.a.v) = 2
  /\ output.ret = TRUE

\* C6: deepEqual(a, a) is true and deepEqual(a, b) = deepEqual(b, a).
C6_DeepEqualReflexiveSymmetric ==
  /\ (Called("deepEqual") /\ input.a = input.b) => output.ret = TRUE
  /\ pc = "swapped" => output.ret = output.swapped

\* The reflexive half alone.
DeepEqualReflexive ==
  (Called("deepEqual") /\ input.a = input.b) => output.ret = TRUE

RECURSIVE HasArray(_)
HasArray(x) ==
  CASE x.t = "array" -> TRUE
    [] x.t = "object" -> \E k \in DOMAIN x.v : HasArray(x.v[k])
    [] OTHER -> FALSE

\* Symmetry and exactness where no array is involved.
DeepEqualExactOffArrays ==
  (pc = "swapped" /\ ~HasArray(input.a) /\ ~HasArray(input.b)) =>
    /\ output.ret = output.swapped
    /\ output.ret = (input.a = input.b)

\* C7: deepEqual(a, b) is true only when a and b have the same type and are
\* structurally equal; an array is never deepEqual to a keyed container.
C7_DeepEqualOnlyWhenStructurallyEqual ==
  (Called("deepEqual") /\ output.ret = TRUE) => input.a = input.b

\* The values deepGet passes through: the value reached after the first k
\* segments of the path.
Reached(k) == reduce(input.obj, SubSeq(split(input.path), 1, k))

\* C8: deepGet never throws; when a step of the path is applied to null, to
\* undefined or to a scalar the result is undefined; otherwise it is the
\* value found under the last segment in the container reached before it.
C8_DeepGetTotal ==
  Called("deepGet") =>
    LET keys == split(input.path)
        n == Len(keys)
        last == Reached(n - 1)
    IN /\ output.ret # TypeError
       /\ (\E k \in 0..n - 1 : ~IsContainer(Reached(k))) =>
            output.ret = Undefined
       /\ (\A k \in 0..n - 1 : IsContainer(Reached(k))) =>
            /\ (last.t = "object" /\ keys[n] \in DOMAIN last.v) =>
                 output.ret = last.v[keys[n]]
            /\ (last.t = "object" /\ keys[n] \notin DOMAIN last.v
                  /\ keys[n] \notin DOMAIN ObjectPrototype) =>
                 output.ret = Undefined
            /\ (last.t = "array" /\ \E i \in 0..Len(last.v) - 1 :
                                      keys[n] = IndexKey(i)) =>
                 \E i \in 0..Len(last.v) - 1 :
                   keys[n] = IndexKey(i) /\ output.ret = last.v[i + 1]

\* C8 witness: a path of two segments whose first segment reached null, so
\* that the second segment was applied to null.
C8_Witness ==
  /\ Called("deepGet")
  /\ Len(split(input.path)) = 2
  /\ IsContainer(input.obj)
  /\ Reached(1) = Null
  /\ output.ret = Undefined

\* A path of two segments reached a leaf through an array and an object.
DeepGetReachesLeaf ==
  /\ Called("deepGet")
  /\ input.obj.t = "array"
  /\ Reached(1).t = "object"
  /\ output.ret = Num(1)

\* C24: in deepGet, where the current value is an array, a segment that is
\* no decimal integer (a name, the empty segment, a negative number) yields
\* undefined, and an integer segment i yields element i of the array.
C24_ArraySegmentMustBeAnIndex ==
  Called("deepGet") =>
    LET keys == split(input.path) IN
      \A k \in 1..Len(keys) :
        Reached(k - 1).t = "array" =>
          Reached(k) =
            IF keys[k] # << >> /\ AllDigits(keys[k])
            THEN GetIndex(Reached(k - 1), Decimal(keys[k]))
            ELSE Undefined

\* On an array, every segment other than the empty one and "-0", "-00"
\* behaves as C24 says.
ArraySegmentIsAnIndexUnlessEmptyOrMinusZero ==
  Called("deepGet") =>
    LET keys == split(input.path) IN
      \A k \in 1..Len(keys) :
        (Reached(k - 1).t = "array" /\ keys[k] # << >>
           /\ ~(NumberOf(keys[k]).v = 0 /\ keys[k][1] = "-")) =>
          Reached(k) =
            IF AllDigits(keys[k])
            THEN GetIndex(Reached(k - 1), Decimal(keys[k]))
            ELSE Undefined

\* The empty path on an array of one element returned that element.
EmptySegmentIndexesZero ==
  /\ Called("deepGet")
  /\ input.obj = Arr(<< Num(1) >>)
  /\ input.path = << >>
  /\ output.ret = Num(1)

\* C30: exact equality implies containment in both directions: whenever
\* deepEqual(a, b) is true, deepContains(a, b) and deepContains(b, a) are
\* true.
C30_EqualImpliesContains ==
  (Called("deepEqual") /\ output.ret = TRUE) =>
    \/ input.same
    \/ deepContains(input.a, input.b) = TRUE
         /\ deepContains(input.b, input.a) = TRUE

\* Where deepEqual is true of two structurally equal values, containment
\* holds in both directions.
EqualImpliesContainsForEqualStructures ==
  (Called("deepEqual") /\ output.ret = TRUE /\ input.a = input.b) =>
    \/ input.same
    \/ deepContains(input.a, input.b) = TRUE
         /\ deepContains(input.b, input.a) = TRUE

\* deepEqual({}, []) returned true, and deepContains({}, []) is false.
EmptyObjectEqualsButDoesNotContainEmptyArray ==
  /\ Called("deepEqual")
  /\ input.a = Obj(<< >>)
  /\ input.b = Arr(<< >>)
  /\ output.ret = TRUE
  /\ deepContains(input.a, input.b) = FALSE

(***************************************************************************)
(* boundary-generator: integerBoundaries, stringLengthBoundaries           *)
(***************************************************************************)
RangeError == [t |-> "RangeError"]

\* Math.trunc(n / 2): rounds towards zero.
truncHalf(n) == IF n >= 0 THEN n \div 2 ELSE 0 - ((0 - n) \div 2)

\* Math.floor(n / 2) for an integer n: n / 2 is exact, floor rounds down.
floorHalf(n) == IF n % 2 = 0 THEN n \div 2 ELSE (n - 1) \div 2

integerBoundaries(min, max) ==
  << min - 1, min, min + 1, floorHalf(min + max), max - 1, max, max + 1 >>

\* 'a'.repeat(count): a negative count throws a RangeError.
repeat(count) ==
  IF count < 0 THEN RangeError ELSE Str([i \in 1..count |-> "a"])

\* Math.max(1, n)
mathMax1(n) == IF n > 1 THEN n ELSE 1

\* Math.max(0, n)
mathMax0(n) == IF n > 0 THEN n ELSE 0

\* An array literal evaluates its elements left to right; the first one
\* that throws ends the call.
ArrayLiteral(elems) ==
  IF \E i \in 1..Len(elems) : elems[i] = RangeError
  THEN RangeError ELSE Arr(elems)

\* The generator without Math.max(0, ...) around minLen - 1.
stringLengthBoundariesUnclamped(minLen, maxLen) ==
  ArrayLiteral(<< Str(<<>>),
                  repeat(minLen - 1),
                  repeat(minLen),
                  repeat(minLen + 1),
                  repeat(floorHalf(minLen + maxLen)),
                  repeat(maxLen - 1),
                  repeat(maxLen),
                  repeat(maxLen + 1) >>)

stringLengthBoundaries(minLen, maxLen) ==
  ArrayLiteral(<< Str(<<>>),
                  repeat(mathMax0(minLen - 1)),
                  repeat(minLen),
                  repeat(minLen + 1),
                  repeat(floorHalf(minLen + maxLen)),
                  repeat(maxLen - 1),
                  repeat(maxLen),
                  repeat(maxLen + 1) >>)

(***************************************************************************)
(* boundary-generator: generateBoundaryCases, generateNegativePayloads      *)
(***************************************************************************)
\* boundaryStrings.unicode, as its 11 UTF-16 code units (each emoji is a
\* surrogate pair).
boundaryStringsUnicode ==
  Str(
  << "u65E5","u672C","u8A9E","u30C6","u30B9","u30C8"," ","uD83C","uDF89",
     "uD83D","uDE80" >>)

\* boundaryStrings.htmlInjection
boundaryStringsHtmlInjection ==
  Str(
  << "<","s","c","r","i","p","t",">","a","l","e","r","t","(","\"","x","s",
     "s","\"",")","<","/","s","c","r","i","p","t",">" >>)

\* boundaryStrings.sqlInjection
boundaryStringsSqlInjection ==
  Str(
  << "'"," ","O","R"," ","1","=","1",";"," ","D","R","O","P"," ","T","A",
     "B","L","E"," ","u","s","e","r","s",";"," ","-","-" >>)

\* The numbers that are no integers of the model: NaN, 1.5, and the two
\* safe-integer limits with a small offset (MIN_SAFE_INTEGER - 1 and
\* MAX_SAFE_INTEGER + 1 are exact doubles).
NaN == [t |-> "number", special |-> "NaN"]
OneAndAHalf == [t |-> "number", special |-> "1.5"]
MinSafeInteger == [t |-> "number", limit |-> "MIN_SAFE_INTEGER", off |-> 0]
MaxSafeInteger == [t |-> "number", limit |-> "MAX_SAFE_INTEGER", off |-> 0]

IsLimit(n) == "limit" \in DOMAIN n

\* n + k for a number n of a FieldSpec and a small integer k
NumAdd(n, k) ==
  IF IsLimit(n) THEN [n EXCEPT !.off = @ + k] ELSE Num(n.v + k)

\* n < k
NumLess(n, k) ==
  IF IsLimit(n) THEN n.limit = "MIN_SAFE_INTEGER" ELSE n.v < k

\* n <= k and n >= k for a number n of a FieldSpec and a small integer k
NumLeq(n, k) ==
  IF IsLimit(n) THEN n.limit = "MIN_SAFE_INTEGER" ELSE n.v <= k
NumGeq(n, k) ==
  IF IsLimit(n) THEN n.limit = "MAX_SAFE_INTEGER" ELSE n.v >= k

\* a ?? b
Coalesce(a, b) == IF IsNullish(a) THEN b ELSE a

\* if (x): undefined, null, false, 0 and '' are falsy. NaN is falsy too.
Truthy(x) ==
  CASE x.t \in {"undefined", "null"} -> FALSE
    [] x.t = "boolean" -> x.v
    [] x.t = "number" ->
         IF "special" \in DOMAIN x THEN x.special # "NaN"
         ELSE IF IsLimit(x) THEN TRUE ELSE x.v # 0
    [] x.t = "string" -> Len(x.v) > 0
    [] OTHER -> TRUE

DefaultMaxLength == 255

\* A description `${name}: text (${arg})`; arg is undefined for a
\* description `${name}: text`.
DescribeWith(name, text, arg) == [name |-> name, text |-> text, arg |-> arg]

BoundaryCase(description, field, value, expectValid) ==
  [description |-> description, field |-> field, value |-> value,
   expectValid |-> expectValid]

requiredCases(spec) ==
  IF Truthy(spec.required)
  THEN << BoundaryCase(DescribeWith(spec.name, "missing (undefined)", Undefined),
                       spec.name, Undefined, FALSE),
          BoundaryCase(DescribeWith(spec.name, "null", Undefined), spec.name, Null, FALSE) >>
  ELSE << >>

stringCases(spec) ==
  LET name == spec.name
      min == Coalesce(spec.minLength, Num(0)).v
      max == Coalesce(spec.maxLength, Num(DefaultMaxLength)).v
  IN << BoundaryCase(DescribeWith(name, "empty string", Undefined), name, Str(<<>>), min = 0),
        BoundaryCase(DescribeWith(name, "at minLength", Num(min)), name,
                     repeat(min), TRUE),
        BoundaryCase(DescribeWith(name, "below minLength", Undefined), name,
                     repeat(mathMax0(min - 1)), min <= 1),
        BoundaryCase(DescribeWith(name, "at maxLength", Num(max)), name,
                     repeat(max), TRUE),
        BoundaryCase(DescribeWith(name, "above maxLength", Undefined), name,
                     repeat(max + 1), FALSE),
        BoundaryCase(DescribeWith(name, "unicode", Undefined), name,
                     boundaryStringsUnicode, TRUE),
        BoundaryCase(DescribeWith(name, "XSS attempt", Undefined), name,
                     boundaryStringsHtmlInjection, FALSE),
        BoundaryCase(DescribeWith(name, "SQL injection", Undefined), name,
                     boundaryStringsSqlInjection, FALSE) >>

emailCases(spec) ==
  LET name == spec.name
      EmailValid ==
        Str(<< "u","s","e","r","@","e","x","a","m","p","l","e",".","c","o","m" >>)
      EmailNoAt ==
        Str(<< "u","s","e","r","e","x","a","m","p","l","e",".","c","o","m" >>)
      EmailDoubleAt ==
        Str(<< "u","s","e","r","@","@","e","x","a","m","p","l","e",".","c","o","m" >>)
      EmailNoDomain ==
        Str(<< "u","s","e","r","@" >>)
      EmailNoLocal ==
        Str(<< "@","e","x","a","m","p","l","e",".","c","o","m" >>)
      EmailSpaces ==
        Str(<< "u","s","e","r"," ","@","e","x","a","m","p","l","e",".","c","o","m" >>)
      EmailUnicodeDomain ==
        Str(<< "u","s","e","r","@","u4F8B","u3048",".","j","p" >>)
  IN << BoundaryCase(DescribeWith(name, "valid email", Undefined), name, EmailValid, TRUE),
        BoundaryCase(DescribeWith(name, "no @", Undefined), name, EmailNoAt, FALSE),
        BoundaryCase(DescribeWith(name, "double @", Undefined), name, EmailDoubleAt, FALSE),
        BoundaryCase(DescribeWith(name, "no domain", Undefined), name, EmailNoDomain, FALSE),
        BoundaryCase(DescribeWith(name, "no local", Undefined), name, EmailNoLocal, FALSE),
        BoundaryCase(DescribeWith(name, "spaces", Undefined), name, EmailSpaces, FALSE),
        BoundaryCase(DescribeWith(name, "unicode domain", Undefined), name,
                     EmailUnicodeDomain, TRUE) >>

numberCases(spec) ==
  LET name == spec.name
      min == Coalesce(spec.min, MinSafeInteger)
      max == Coalesce(spec.max, MaxSafeInteger)
      NotANumber ==
        Str(<< "n","o","t","-","a","-","n","u","m","b","e","r" >>)
  IN << BoundaryCase(DescribeWith(name, "zero", Undefined), name, Num(0),
                     NumLeq(min, 0) /\ NumGeq(max, 0)),
        BoundaryCase(DescribeWith(name, "at min", min), name, min, TRUE),
        BoundaryCase(DescribeWith(name, "below min", Undefined), name, NumAdd(min, -1), FALSE),
        BoundaryCase(DescribeWith(name, "at max", max), name, max, TRUE),
        BoundaryCase(DescribeWith(name, "above max", Undefined), name, NumAdd(max, 1), FALSE),
        BoundaryCase(DescribeWith(name, "negative", Undefined), name, Num(-1),
                     NumLeq(min, -1)),
        BoundaryCase(DescribeWith(name, "NaN", Undefined), name, NaN, FALSE),
        BoundaryCase(DescribeWith(name, "string instead", Undefined), name, NotANumber,
                     FALSE) >>
     \o (IF spec.type = "integer"
         THEN << BoundaryCase(DescribeWith(name, "float", Undefined), name, OneAndAHalf,
                              FALSE) >>
         ELSE << >>)

booleanCases(spec) ==
  LET name == spec.name
      TrueText ==
        Str(<< "t","r","u","e" >>)
  IN << BoundaryCase(DescribeWith(name, "true", Undefined), name, Bool(TRUE), TRUE),
        BoundaryCase(DescribeWith(name, "false", Undefined), name, Bool(FALSE), TRUE),
        BoundaryCase(DescribeWith(name, "string \"true\"", Undefined), name, TrueText, FALSE),
        BoundaryCase(DescribeWith(name, "number 1", Undefined), name, Num(1), FALSE),
        BoundaryCase(DescribeWith(name, "number 0", Undefined), name, Num(0), FALSE) >>

generateBoundaryCases(spec) ==
  requiredCases(spec) \o
  (CASE spec.type = "string" -> stringCases(spec)
     [] spec.type = "email" -> emailCases(spec)
     [] spec.type \in {"number", "integer"} -> numberCases(spec)
     [] spec.type = "boolean" -> booleanCases(spec)
     [] OTHER -> << >>)

\* The filter that keeps every case.
allCases(cases) == cases

\* cases.filter((c) => !c.expectValid)
rejectedCases(cases) == SelectSeq(cases, LAMBDA c : ~c.expectValid)

\* { ...validPayload, [field]: value }
ObjectSpreadWith(validPayload, field, value) ==
  [k \in DOMAIN validPayload \cup {field} |->
     IF k = field THEN value ELSE validPayload[k]]

\* The results pushed for one spec, in case order.
payloadsOf(validPayload, cases) ==
  [i \in 1..Len(cases) |->
     [description |-> cases[i].description,
      payload |-> ObjectSpreadWith(validPayload, cases[i].field,
                                   cases[i].value)]]

RECURSIVE generateNegativePayloads(_, _)
generateNegativePayloads(validPayload, specs) ==
  IF specs = << >> THEN << >>
  ELSE payloadsOf(validPayload,
                  rejectedCases(generateBoundaryCases(Head(specs))))
       \o generateNegativePayloads(validPayload, Tail(specs))

(***************************************************************************)
(* Inputs of the case generators                                           *)
(***************************************************************************)
MaxSpecs == 2

FieldSpec(name, type, minLength, maxLength, min, max, required) ==
  [name |-> name, type |-> type, minLength |-> minLength,
   maxLength |-> maxLength, min |-> min, max |-> max, required |-> required]

Optional(S) == {Undefined} \cup S

StringSpecs ==
  {FieldSpec("name", "string", lo, hi, Undefined, Undefined, req) :
     lo \in Optional({Num(n) : n \in 0..2}),
     hi \in Optional({Num(MaxLen)}),
     req \in Optional({Bool(TRUE), Bool(FALSE)})}

NumberSpecs ==
  {s \in {FieldSpec("age", type, Undefined, Undefined, lo, hi, req) :
            type \in {"number", "integer"},
            lo \in Optional({Num(n) : n \in {-2, 0, 1}}),
            hi \in Optional({Num(-2), Num(IntRange)}),
            req \in Optional({Bool(TRUE)})} :
     s.min = Undefined \/ s.max = Undefined \/ s.min.v <= s.max.v}

OtherSpecs ==
  {FieldSpec(name, type, Undefined, Undefined, Undefined, Undefined, req) :
     name \in {"email", "active"}, type \in {"email", "boolean"},
     req \in Optional({Bool(TRUE)})}

FieldSpecs == StringSpecs \cup NumberSpecs \cup OtherSpecs

\* The specs the payload generator is given lists of.
PayloadSpecs ==
  {s \in FieldSpecs :
     /\ s.required # Bool(FALSE)
     /\ s.type = "string" => (s.maxLength # Undefined /\ s.minLength # Num(1))
     /\ s.type \in {"number", "integer"} =>
          (s.max = Num(IntRange) /\ s.min \in {Undefined, Num(1)})
     /\ s.type = "email" => s.name = "email"
     /\ s.type = "boolean" => s.name = "active"}

ValidPayloads ==
  { [name |-> Str(<<"A", "l">>), age |-> Num(2), email |-> Str(<<"a", "@", "b">>),
     active |-> Bool(TRUE)],
    [name |-> Str(<<"A", "l">>), email |-> Str(<<"a", "@", "b">>)] }

(***************************************************************************)
(* Specification of the boundary generator                                 *)
(***************************************************************************)
InitBoundary ==
  /\ \/ input \in {[kind |-> "integer", min |-> a, max |-> b] :
                     a \in (0 - IntRange)..IntRange, b \in (0 - IntRange)..IntRange}
     \/ input = [kind |-> "integer", min |-> 0, max |-> 150]
     \/ input \in {[kind |-> "length", minLen |-> a, maxLen |-> b] :
                     a \in 0..MaxLen, b \in 0..MaxLen}
     \/ input = [kind |-> "length", minLen |-> 1, maxLen |-> 255]
     \/ input \in {[kind |-> "cases", spec |-> s] : s \in FieldSpecs}
     \/ input \in {[kind |-> "negative", validPayload |-> p, specs |-> ss] :
                     p \in ValidPayloads, ss \in SeqsUpTo(PayloadSpecs, MaxSpecs)}
  /\ output = NoOutput
  /\ pc = "start"

IntegerBoundaries ==
  /\ pc = "start"
  /\ input.kind = "integer"
  /\ output' = [fn |-> "integerBoundaries",
                ret |-> integerBoundaries(input.min, input.max)]
  /\ pc' = "done"
  /\ UNCHANGED input

StringLengthBoundaries ==
  /\ pc = "start"
  /\ input.kind = "length"
  /\ output' = [fn |-> "stringLengthBoundaries",
                ret |-> stringLengthBoundaries(input.minLen, input.maxLen)]
  /\ pc' = "done"
  /\ UNCHANGED input

GenerateBoundaryCases ==
  /\ pc = "start"
  /\ input.kind = "cases"
  /\ output' = [fn |-> "generateBoundaryCases",
                ret |-> generateBoundaryCases(input.spec)]
  /\ pc' = "done"
  /\ UNCHANGED input

GenerateNegativePayloads ==
  /\ pc = "start"
  /\ input.kind = "negative"
  /\ output' = [fn |-> "generateNegativePayloads",
                ret |-> generateNegativePayloads(input.validPayload,
                                                 input.specs)]
  /\ pc' = "done"
  /\ UNCHANGED input

NextBoundary ==
  \/ IntegerBoundaries
  \/ StringLengthBoundaries
  \/ GenerateBoundaryCases
  \/ GenerateNegativePayloads

SpecBoundary == InitBoundary /\ [][NextBoundary]_vars

\* m is the floor of half of n.
IsFloorOfHalf(m, n) == 2 * m <= n /\ n <= 2 * m + 1

\* C9: integerBoundaries(min, max) is the 7 values min-1, min, min+1,
\* floor((min+max)/2), max-1, max, max+1 in that order, and
\* integerBoundaries(0, 150) is -1, 0, 1, 75, 149, 150, 151.
C9_IntegerBoundariesExact ==
  Called("integerBoundaries") =>
    LET r == output.ret
        lo == input.min
        hi == input.max
    IN /\ Len(r) = 7
       /\ r[2] = lo /\ r[1] + 1 = lo /\ r[3] - 1 = lo
       /\ r[6] = hi /\ r[5] + 1 = hi /\ r[7] - 1 = hi
       /\ IsFloorOfHalf(r[4], lo + hi)
       /\ (lo = 0 /\ hi = 150) => r = <<-1, 0, 1, 75, 149, 150, 151>>

\* C9 witness: a range whose bounds sum to a negative odd number, where
\* rounding down and rounding towards zero differ.
C9_Witness ==
  /\ Called("integerBoundaries")
  /\ input.min + input.max < 0
  /\ (input.min + input.max) % 2 = 1
  /\ input.min < input.max

Lengths(r) == [i \in 1..Len(r.v) |-> Len(r.v[i].v)]

OnlyFiller(r) ==
  \A i \in 1..Len(r.v) :
    r.v[i].t = "string" /\ \A j \in 1..Len(r.v[i].v) : r.v[i].v[j] = "a"

ClaimedLengths(r, minLen, maxLen) ==
  /\ r # RangeError
  /\ Len(r.v) = 8
  /\ OnlyFiller(r)
  /\ LET n == Lengths(r) IN
       /\ n[1] = 0
       /\ n[2] = IF minLen >= 1 THEN minLen - 1 ELSE 0
       /\ n[3] = minLen
       /\ n[4] = minLen + 1
       /\ IsFloorOfHalf(n[5], minLen + maxLen)
       /\ n[6] = maxLen - 1
       /\ n[7] = maxLen
       /\ n[8] = maxLen + 1
  /\ (minLen = 1 /\ maxLen = 255) =>
       Lengths(r) = <<0, 0, 1, 2, 128, 254, 255, 256>>

\* C10 (as claimed): for all 0 <= minLen <= maxLen the call returns, without
\* error, 8 strings of lengths 0, max(0, minLen-1), minLen, minLen+1,
\* floor((minLen+maxLen)/2), maxLen-1, maxLen, maxLen+1.
C10_StringLengthsForAllRanges ==
  (Called("stringLengthBoundaries") /\ 0 <= input.minLen
     /\ input.minLen <= input.maxLen) =>
    ClaimedLengths(output.ret, input.minLen, input.maxLen)

\* C10 (amended): the same for all 0 <= minLen <= maxLen with maxLen >= 1.
C10_StringLengthsForMaxLenAtLeastOne ==
  (Called("stringLengthBoundaries") /\ 0 <= input.minLen
     /\ input.minLen <= input.maxLen /\ input.maxLen >= 1) =>
    ClaimedLengths(output.ret, input.minLen, input.maxLen)

\* With maxLen = 0 the call throws: 'a'.repeat(maxLen - 1) has a negative
\* count.
StringLengthBoundariesThrowsAtZero ==
  (Called("stringLengthBoundaries") /\ input.maxLen = 0) =>
    output.ret = RangeError

\* C10 witness: minLen = 0, where minLen - 1 is floored at 0, and the call
\* returned its 8 strings.
C10_Witness ==
  /\ Called("stringLengthBoundaries")
  /\ input.minLen = 0
  /\ input.maxLen >= 1
  /\ output.ret # RangeError
  /\ Lengths(output.ret)[2] = 0
  /\ Lengths(output.ret)[8] = input.maxLen + 1

\* The rejected cases of a list of specs, as pairs <<spec index, case index>>.
RejectedAt(specs) ==
  UNION {{<<i, j>> : j \in {n \in 1..Len(generateBoundaryCases(specs[i])) :
                              ~generateBoundaryCases(specs[i])[n].expectValid}} :
         i \in 1..Len(specs)}

\* Spec order, then case order.
ComesBefore(p, q) == p[1] < q[1] \/ (p[1] = q[1] /\ p[2] < q[2])

\* C11: generateNegativePayloads(validPayload, specs) emits exactly one
\* payload for each case of generateBoundaryCases(spec) with
\* expectValid = false, for each spec in spec order and then case order, and
\* each payload equals validPayload on every field but the one the case
\* names, which holds the case's value.
C11_NegativePayloadsOnePerRejectedCase ==
  Called("generateNegativePayloads") =>
    LET r == output.ret
        specs == input.specs
        validPayload == input.validPayload
        rejected == RejectedAt(specs)
        Position(p) == 1 + Cardinality({q \in rejected : ComesBefore(q, p)})
    IN /\ Len(r) = Cardinality(rejected)
       /\ \A p \in rejected :
            LET c == generateBoundaryCases(specs[p[1]])[p[2]]
                e == r[Position(p)]
            IN /\ e.description = c.description
               /\ DOMAIN e.payload = DOMAIN validPayload \cup {c.field}
               /\ e.payload[c.field] = c.value
               /\ \A k \in DOMAIN validPayload \ {c.field} :
                    e.payload[k] = validPayload[k]

\* C11 witness: two specs, the first one required so that its list opens
\* with the two missing-value cases, the second one naming a field the
\* valid payload lacks, and accepted cases in between that are left out.
C11_Witness ==
  /\ Called("generateNegativePayloads")
  /\ Len(input.specs) = 2
  /\ input.specs[1].type = "string"
  /\ Truthy(input.specs[1].required)
  /\ input.specs[2].type = "integer"
  /\ "age" \notin DOMAIN input.validPayload
  /\ Len(output.ret) > 8
  /\ output.ret[1].payload["name"] = Undefined
  /\ output.ret[Len(output.ret)].payload["age"] = OneAndAHalf

\* The cases after the required cases, which are there iff the spec is
\* required.
TypeCases ==
  LET k == IF Truthy(input.spec.required) THEN 2 ELSE 0
  IN SubSeq(output.ret, k + 1, Len(output.ret))

ValuesOf(cases) == [i \in 1..Len(cases) |-> cases[i].value]
FlagsOf(cases) == [i \in 1..Len(cases) |-> cases[i].expectValid]

\* C25: for a number or integer spec with bounds min and max the type cases
\* are, in this order, 0 (valid iff min <= 0 <= max), min (valid), min - 1
\* (invalid), max (valid), max + 1 (invalid), -1 (valid iff min <= -1), NaN
\* (invalid), a string (invalid), and for an integer a fractional value
\* (invalid): 8 cases for a number, 9 for an integer.
C25_NumberCasesInOrder ==
  (/\ Called("generateBoundaryCases")
   /\ input.spec.type \in {"number", "integer"}
   /\ input.spec.min # Undefined
   /\ input.spec.max # Undefined) =>
    LET min == input.spec.min.v
        max == input.spec.max.v
        c == TypeCases
        n == IF input.spec.type = "integer" THEN 9 ELSE 8
    IN /\ Len(c) = n
       /\ SubSeq(ValuesOf(c), 1, 7) =
            << Num(0), Num(min), Num(min - 1), Num(max), Num(max + 1),
               Num(-1), NaN >>
       /\ c[8].value.t = "string"
       /\ ~AllDigits(c[8].value.v)
       /\ n = 9 => c[9].value = OneAndAHalf
       /\ FlagsOf(c) =
            << min <= 0 /\ 0 <= max, TRUE, FALSE, TRUE, FALSE, min <= -1,
               FALSE, FALSE >> \o (IF n = 9 THEN << FALSE >> ELSE << >>)

\* C25 witness: a required integer spec with bounds 1 and IntRange gave 11
\* cases; zero and -1 are rejected and the float is last.
C25_Witness ==
  /\ Called("generateBoundaryCases")
  /\ input.spec.type = "integer"
  /\ input.spec.min = Num(1)
  /\ input.spec.max = Num(IntRange)
  /\ Truthy(input.spec.required)
  /\ Len(output.ret) = 11
  /\ ~output.ret[3].expectValid
  /\ ~output.ret[8].expectValid
  /\ output.ret[11].value = OneAndAHalf

\* C26: for a string spec with minLength and maxLength, after a missing
\* case and a null case (both invalid) that come first iff the field is
\* required, the cases are in this order: the empty string (valid iff
\* minLength = 0), minLength characters (valid), max(0, minLength - 1)
\* characters (valid iff minLength <= 1), maxLength characters (valid),
\* maxLength + 1 characters (invalid), the unicode sample (valid), the HTML
\* injection sample (invalid), the SQL injection sample (invalid).
C26_StringCasesInOrder ==
  (/\ Called("generateBoundaryCases")
   /\ input.spec.type = "string"
   /\ input.spec.minLength # Undefined
   /\ input.spec.maxLength # Undefined) =>
    LET min == input.spec.minLength.v
        max == input.spec.maxLength.v
        required == input.spec.required = Bool(TRUE)
        r == output.ret
        c == TypeCases
    IN /\ Len(r) = IF required THEN 10 ELSE 8
       /\ required =>
            /\ r[1].value = Undefined /\ ~r[1].expectValid
            /\ r[2].value = Null /\ ~r[2].expectValid
       /\ Len(c) = 8
       /\ \A i \in 1..8 : c[i].value.t = "string" /\ c[i].field = input.spec.name
       /\ [i \in 1..5 |-> Len(c[i].value.v)] =
            << 0, min, IF min - 1 > 0 THEN min - 1 ELSE 0, max, max + 1 >>
       /\ SubSeq(ValuesOf(c), 6, 8) =
            << boundaryStringsUnicode, boundaryStringsHtmlInjection,
               boundaryStringsSqlInjection >>
       /\ FlagsOf(c) =
            << min = 0, TRUE, min <= 1, TRUE, FALSE, TRUE, FALSE, FALSE >>

\* C26 witness: a required string spec with minLength 2 gave ten cases, the
\* third the empty string (rejected), the fifth a string of one character
\* (rejected).
C26_Witness ==
  /\ Called("generateBoundaryCases")
  /\ input.spec.type = "string"
  /\ input.spec.minLength = Num(2)
  /\ input.spec.maxLength = Num(MaxLen)
  /\ input.spec.required = Bool(TRUE)
  /\ Len(output.ret) = 10
  /\ output.ret[3].value = Str(<< >>) /\ ~output.ret[3].expectValid
  /\ output.ret[5].value = Str(<< "a" >>) /\ ~output.ret[5].expectValid

\* The validity domain a spec declares: a string whose length lies in
\* [minLength, maxLength], a number in [min, max]; a bound that is not
\* declared does not restrict.
InDomain(value, spec) ==
  CASE spec.type = "string" ->
         /\ value.t = "string"
         /\ spec.minLength # Undefined => Len(value.v) >= spec.minLength.v
         /\ spec.maxLength # Undefined => Len(value.v) <= spec.maxLength.v
    [] spec.type \in {"number", "integer"} ->
         /\ value.t = "number"
         /\ "special" \notin DOMAIN value
         /\ IF IsLimit(value) THEN value.off = 0
            ELSE /\ spec.min # Undefined => value.v >= spec.min.v
                 /\ spec.max # Undefined => value.v <= spec.max.v
    [] OTHER -> TRUE

\* C29: for a well-formed spec every case marked expectValid = true has a
\* value inside the declared validity domain, and no value appears in one
\* output both with expectValid = true and with expectValid = false.
C29_ValidCasesLieInTheDomain ==
  Called("generateBoundaryCases") =>
    LET r == output.ret IN
      /\ \A i \in 1..Len(r) :
           r[i].expectValid => InDomain(r[i].value, input.spec)
      /\ \A i, j \in 1..Len(r) :
           r[i].value = r[j].value => r[i].expectValid = r[j].expectValid

\* With minLength 1 the empty string is emitted twice, rejected as the
\* empty string and accepted as the string below minLength.
EmptyStringBothAcceptedAndRejected ==
  /\ Called("generateBoundaryCases")
  /\ input.spec.type = "string"
  /\ input.spec.minLength = Num(1)
  /\ \E i, j \in 1..Len(output.ret) :
       /\ output.ret[i].value = Str(<< >>) /\ output.ret[i].expectValid
       /\ output.ret[j].value = Str(<< >>) /\ ~output.ret[j].expectValid

(***************************************************************************)
(* api-runner: one test case (request, attachments, assertions)            *)
(***************************************************************************)
MaxExpectKeys == 3

SyntaxError == [t |-> "SyntaxError"]

\* The response bodies of the model, as the text the server sent.
RawObjectA == << "{", "\"", "a", "\"", ":", "1", "}" >>
RawObjectA0 ==
  << "{", "\"", "0", "\"", ":", "1", ",", "\"", "a", "\"", ":", "1", "}" >>
RawEmpty == << >>
RawWord == << "o", "k" >>

BodyA == Obj([k \in {KeyA} |-> Num(1)])
BodyA0 == Obj([k \in {KeyA, KeyZero} |-> Num(1)])

\* response.json(): JSON.parse of the body text; a text that is no JSON
\* throws a SyntaxError.
responseJson(raw) ==
  CASE raw = RawObjectA -> BodyA
    [] raw = RawObjectA0 -> BodyA0
    [] OTHER -> SyntaxError

\* response.text()
responseText(raw) == Str(raw)

\* A header value; header names and values are atomic in the model.
HeaderValue(s) == [t |-> "string", v |-> s]

ContentTypeJson == "application/json; charset=utf-8"
ContentTypePlain == "text/plain"

\* respHeaders[name]: the host gives the header names in lower case.
headerOf(respHeaders, name) ==
  IF name \in DOMAIN respHeaders THEN HeaderValue(respHeaders[name])
  ELSE Undefined

\* key.toLowerCase() on the header names of the model
toLowerCase(key) ==
  CASE key = "X-Id" -> "x-id"
    [] key = "Content-Type" -> "content-type"
    [] OTHER -> key

\* The parsed body, or the error response.json() throws: JSON when
\* (response.headers()['content-type'] ?? '') includes 'application/json'
\* (the two content types of the model that do are listed), else text.
parseBody(response) ==
  LET contentType ==
        IF "content-type" \in DOMAIN response.headers
        THEN response.headers["content-type"] ELSE ""
  IN IF contentType \in {"application/json", ContentTypeJson}
     THEN responseJson(response.raw)
     ELSE responseText(response.raw)

\* attachJson(testInfo, name, data) with no attachment made.
attachNothing(attachments, name, data) == attachments

\* attachJson(testInfo, name, data)
attachJson(attachments, name, data) ==
  Append(attachments, [name |-> name, data |-> data])

\* The guard of the status assertion, exp.status !== undefined, after the
\* guard that is always true.
statusAlways(exp) == TRUE
statusPresent(exp) == exp.status # Undefined

\* typeof x as text
typeofText(x) ==
  CASE TypeOf(x) = "string" -> << "s", "t", "r", "i", "n", "g" >>
    [] TypeOf(x) = "number" -> << "n", "u", "m", "b", "e", "r" >>
    [] TypeOf(x) = "boolean" -> << "b", "o", "o", "l", "e", "a", "n" >>
    [] TypeOf(x) = "undefined" ->
         << "u", "n", "d", "e", "f", "i", "n", "e", "d" >>
    [] TypeOf(x) = "function" ->
         << "f", "u", "n", "c", "t", "i", "o", "n" >>
    [] OTHER -> << "o", "b", "j", "e", "c", "t" >>

\* actual.length: a TypeError on null and undefined, the length of a string
\* or an array, the property of an object, undefined otherwise.
lengthOf(actual) ==
  IF IsNullish(actual) THEN TypeError
  ELSE IF actual.t \in {"string", "array"} THEN Num(Len(actual.v))
  ELSE IF actual.t = "object" THEN GetProperty(actual, KeyLength)
  ELSE Undefined

\* expect(n).toBeGreaterThanOrEqual(k) and toBeLessThanOrEqual(k): a
\* received value that is no number fails the matcher.
toBeGreaterThanOrEqual(n, k) == n.t = "number" /\ n.v >= k.v
toBeLessThanOrEqual(n, k) == n.t = "number" /\ n.v <= k.v

\* The checks of one bodyPath entry; the first expect that throws ends the
\* test, so the entry holds when every check that is present holds.
\* regexMatches is what String(actual) matching new RegExp(bp.regex) gives.
bodyPathEntryHolds(body, bp, regexMatches) ==
  LET actual == deepGet(body, bp.path) IN
    /\ bp.equals # Undefined => actual = bp.equals
    /\ bp.contains # Undefined => deepContains(actual, bp.contains) = TRUE
    /\ Truthy(bp.type) => typeofText(actual) = bp.type.v
    /\ bp.minLength # Undefined =>
         (lengthOf(actual) # TypeError
            /\ toBeGreaterThanOrEqual(lengthOf(actual), bp.minLength))
    /\ bp.maxLength # Undefined =>
         (lengthOf(actual) # TypeError
            /\ toBeLessThanOrEqual(lengthOf(actual), bp.maxLength))
    /\ Truthy(bp.regex) => regexMatches

(***************************************************************************)
(* Inputs of a test case: the resolved expectation, the response           *)
(***************************************************************************)
Expectation(status, statusRange, bodyContains, bodyExact, bodySchema, bodyPath, headers, responseTime) ==
  [status |-> status, statusRange |-> statusRange,
   bodyContains |-> bodyContains, bodyExact |-> bodyExact,
   bodySchema |-> bodySchema, bodyPath |-> bodyPath, headers |-> headers,
   responseTime |-> responseTime]

ExpectationKeys ==
  {"status", "statusRange", "bodyContains", "bodyExact", "bodySchema",
   "bodyPath", "headers", "responseTime"}

\* The keys the document declares: an absent key reads as undefined.
PresentKeys(exp) == {k \in ExpectationKeys : exp[k] # Undefined}

BodyPathEntry(path, equals, contains, type, minLength, maxLength, regex) ==
  [path |-> path, equals |-> equals, contains |-> contains, type |-> type,
   minLength |-> minLength, maxLength |-> maxLength, regex |-> regex]

PathA == << "a" >>
PathB == << "b" >>

EntryEquals ==
  BodyPathEntry(PathA, Num(1), Undefined, Undefined, Undefined, Undefined,
                Undefined)
EntryTypeAndContains ==
  BodyPathEntry(PathA, Undefined, Num(1), Str(<<"n","u","m","b","e","r">>),
                Undefined, Undefined, Undefined)
EntryLength ==
  BodyPathEntry(PathB, Undefined, Undefined, Undefined, Num(1), Num(2),
                Undefined)
EntryRegex ==
  BodyPathEntry(PathA, Undefined, Undefined, Undefined, Undefined, Undefined,
                Str(<<"^", "1", "$">>))

BodyPaths ==
  { Arr(<<EntryEquals>>), Arr(<<EntryTypeAndContains, EntryEquals>>),
    Arr(<<EntryLength>>), Arr(<<EntryRegex>>) }

StatusRange(min, max) == [t |-> "object", min |-> Num(min), max |-> Num(max)]

Expectations ==
  {e \in {Expectation(s, sr, bc, be, bs, bp, h, rt) :
            s \in Optional({Num(200)}),
            sr \in Optional({StatusRange(200, 204)}),
            bc \in Optional({BodyA}),
            be \in Optional({BodyA}),
            bs \in Optional({Obj(<<>>)}),
            bp \in Optional(BodyPaths),
            h \in Optional({Obj([k \in {"X-Id"} |-> "7"]),
                            Obj([k \in {"Content-Type"} |->
                                   ContentTypePlain])}),
            rt \in Optional({Num(0), Num(2)})} :
     Cardinality(PresentKeys(e)) <= MaxExpectKeys}

ResponseHeaders ==
  UNION {[K -> {"7", "8"}] : K \in SUBSET {"x-id"}}

\* The headers of a response with the given content type, '' for none.
WithContentType(headers, type) ==
  IF type = "" THEN headers
  ELSE [k \in DOMAIN headers \cup {"content-type"} |->
          IF k = "content-type" THEN type ELSE headers[k]]

ResponseBodies ==
  { [type |-> ContentTypeJson, raw |-> RawObjectA],
    [type |-> ContentTypeJson, raw |-> RawObjectA0],
    [type |-> ContentTypeJson, raw |-> RawEmpty],
    [type |-> ContentTypePlain, raw |-> RawWord],
    [type |-> "", raw |-> RawObjectA] }

\* The responses the host delivers: status, headers, body text, elapsed ms.
Responses ==
  {[status |-> s, headers |-> WithContentType(h, b.type), raw |-> b.raw,
    elapsed |-> ms] :
     s \in {200, 204, 404}, h \in ResponseHeaders, b \in ResponseBodies,
     ms \in {1, 3}}

\* The request of the test case after interpolation.
ResolvedRequest ==
  [method |-> "GET", url |-> "/users/1", headers |-> <<>>, body |-> Undefined]

(***************************************************************************)
(* Specification of one API test case                                      *)
(***************************************************************************)
HasRegex(exp) ==
  /\ exp.bodyPath # Undefined
  /\ \E i \in 1..Len(exp.bodyPath.v) : exp.bodyPath.v[i].regex # Undefined

InitApiTest ==
  /\ input \in {[kind |-> "apiTest", request |-> ResolvedRequest,
                 expect |-> e, arrives |-> a, response |-> r,
                 schemaValid |-> sv, regexMatches |-> rm] :
                  e \in Expectations, a \in BOOLEAN, r \in Responses,
                  sv \in BOOLEAN, rm \in BOOLEAN}
  /\ input.arrives \/ input.response.status = 404
  /\ input.schemaValid \/ input.expect.bodySchema # Undefined
  /\ input.regexMatches \/ HasRegex(input.expect)
  /\ output = [fn |-> "apiTest", body |-> Undefined, observed |-> FALSE,
               attachments |-> <<>>, evaluated |-> <<>>, failed |-> "none",
               thrown |-> "none"]
  /\ pc = "start"

\* apiContext.fetch: the host delivers a response or throws.
Fetch ==
  /\ input.kind = "apiTest"
  /\ pc = "start"
  /\ IF input.arrives
     THEN pc' = "fetched" /\ output' = output
     ELSE pc' = "failed" /\ output' = [output EXCEPT !.thrown = "fetch"]
  /\ UNCHANGED input

\* response.json() or response.text()
ParseBody ==
  /\ input.kind = "apiTest"
  /\ pc = "fetched"
  /\ LET body == parseBody(input.response) IN
       IF body = SyntaxError
       THEN pc' = "failed"
            /\ output' = [output EXCEPT !.thrown = "SyntaxError"]
       ELSE pc' = "parsed"
            /\ output' = [output EXCEPT !.body = body, !.observed = TRUE]
  /\ UNCHANGED input

AttachRequest ==
  /\ input.kind = "apiTest"
  /\ pc = "parsed"
  /\ output' = [output EXCEPT
                  !.attachments = attachJson(@, "Request", input.request)]
  /\ pc' = "attached"
  /\ UNCHANGED input

AttachResponse ==
  /\ input.kind = "apiTest"
  /\ pc = "attached"
  /\ output' = [output EXCEPT
                  !.attachments =
                    attachJson(@, "Response",
                               [status |-> input.response.status,
                                headers |-> input.response.headers,
                                body |-> output.body,
                                elapsed |-> input.response.elapsed])]
  /\ pc' = "status"
  /\ UNCHANGED input

\* One block of assertions: skipped when its guard is false; a failing
\* expect throws and ends the test.
Assertion(stage, next, present, holds) ==
  /\ IF present
     THEN IF holds
          THEN /\ output' = [output EXCEPT !.evaluated = Append(@, stage)]
               /\ pc' = next
          ELSE /\ output' = [output EXCEPT !.evaluated = Append(@, stage),
                                           !.failed = stage]
               /\ pc' = "failed"
     ELSE output' = output /\ pc' = next
  /\ UNCHANGED input

AssertStatus ==
  /\ input.kind = "apiTest"
  /\ pc = "status"
  /\ Assertion("status", "statusRange", statusPresent(input.expect),
               Num(input.response.status) = input.expect.status)

AssertStatusRange ==
  /\ input.kind = "apiTest"
  /\ pc = "statusRange"
  /\ Assertion("statusRange", "bodyContains", Truthy(input.expect.statusRange),
               /\ toBeGreaterThanOrEqual(Num(input.response.status),
                                         input.expect.statusRange.min)
               /\ toBeLessThanOrEqual(Num(input.response.status),
                                      input.expect.statusRange.max))

AssertBodyContains ==
  /\ input.kind = "apiTest"
  /\ pc = "bodyContains"
  /\ Assertion("bodyContains", "bodyExact", Truthy(input.expect.bodyContains),
               deepContains(output.body, input.expect.bodyContains) = TRUE)

AssertBodyExact ==
  /\ input.kind = "apiTest"
  /\ pc = "bodyExact"
  /\ Assertion("bodyExact", "bodySchema", input.expect.bodyExact # Undefined,
               deepEqual(output.body, input.expect.bodyExact) = TRUE)

AssertBodySchema ==
  /\ input.kind = "apiTest"
  /\ pc = "bodySchema"
  /\ Assertion("bodySchema", "bodyPath", Truthy(input.expect.bodySchema),
               input.schemaValid)

AssertBodyPath ==
  /\ input.kind = "apiTest"
  /\ pc = "bodyPath"
  /\ Assertion("bodyPath", "headers", Truthy(input.expect.bodyPath),
               \A i \in 1..Len(input.expect.bodyPath.v) :
                 bodyPathEntryHolds(output.body, input.expect.bodyPath.v[i],
                                    input.regexMatches))

AssertHeaders ==
  /\ input.kind = "apiTest"
  /\ pc = "headers"
  /\ Assertion("headers", "responseTime", Truthy(input.expect.headers),
               \A key \in DOMAIN input.expect.headers.v :
                 headerOf(input.response.headers, toLowerCase(key))
                   = HeaderValue(input.expect.headers.v[key]))

AssertResponseTime ==
  /\ input.kind = "apiTest"
  /\ pc = "responseTime"
  /\ Assertion("responseTime", "passed", Truthy(input.expect.responseTime),
               toBeLessThanOrEqual(Num(input.response.elapsed),
                                   input.expect.responseTime))

NextApiTest ==
  \/ Fetch
  \/ ParseBody
  \/ AttachRequest
  \/ AttachResponse
  \/ AssertStatus
  \/ AssertStatusRange
  \/ AssertBodyContains
  \/ AssertBodyExact
  \/ AssertBodySchema
  \/ AssertBodyPath
  \/ AssertHeaders
  \/ AssertResponseTime

SpecApiTest == InitApiTest /\ [][NextApiTest]_vars

\* The test case has ended on a response the host delivered with its body.
Ended == pc \in {"passed", "failed"} /\ output.observed

\* C12: a test case whose expectation has zero keys passes for every
\* observed response, and an absent key never causes an assertion to be
\* evaluated.
C12_EmptyExpectationPasses ==
  (input.kind = "apiTest" /\ PresentKeys(input.expect) = {}) =>
    /\ output.evaluated = << >>
    /\ Ended => pc = "passed"

\* C12 witness: an empty expectation has passed on a 404 response.
C12_Witness ==
  /\ input.kind = "apiTest"
  /\ PresentKeys(input.expect) = {}
  /\ pc = "passed"
  /\ input.response.status = 404
  /\ input.response.elapsed = 3

\* The header of a response under a name, whatever the case of the letters.
HeaderIgnoringCase(respHeaders, name) ==
  IF \E h \in DOMAIN respHeaders : toLowerCase(h) = toLowerCase(name)
  THEN HeaderValue(respHeaders[CHOOSE h \in DOMAIN respHeaders :
                                 toLowerCase(h) = toLowerCase(name)])
  ELSE Undefined

\* The present keys of an expectation that the response violates, for the
\* six keys the claim lists.
ViolatedKeys(exp, response, body) ==
  {k \in PresentKeys(exp) :
     CASE k = "status" -> Num(response.status) # exp.status
       [] k = "statusRange" ->
            ~(exp.statusRange.min.v <= response.status
                /\ response.status <= exp.statusRange.max.v)
       [] k = "bodyContains" -> ~deepContains(body, exp.bodyContains)
       [] k = "bodyExact" -> ~deepEqual(body, exp.bodyExact)
       [] k = "headers" ->
            \E name \in DOMAIN exp.headers.v :
              HeaderIgnoringCase(response.headers, name)
                # HeaderValue(exp.headers.v[name])
       [] k = "responseTime" -> response.elapsed > exp.responseTime.v
       [] OTHER -> FALSE}

ListedKeys ==
  {"status", "statusRange", "bodyContains", "bodyExact", "headers",
   "responseTime"}

\* C13: every present expectation key activates its assertion and the
\* assertions are AND-combined: the test case fails whenever at least one
\* present key is violated and passes when every present key holds.
C13_PresentKeysAreAndCombined ==
  (input.kind = "apiTest" /\ Ended
     /\ PresentKeys(input.expect) \subseteq ListedKeys) =>
    (pc = "failed"
       <=> ViolatedKeys(input.expect, input.response, output.body) # {})

\* The same for expectations whose responseTime, when present, is not 0:
\* if (exp.responseTime) skips the assertion of a maximum of 0 ms.
AndCombinedForNonZeroResponseTime ==
  (input.kind = "apiTest" /\ Ended
     /\ PresentKeys(input.expect) \subseteq ListedKeys
     /\ input.expect.responseTime # Num(0)) =>
    (pc = "failed"
       <=> ViolatedKeys(input.expect, input.response, output.body) # {})

\* The guards that decide whether a key's assertion is evaluated.
Activated(exp) ==
  {k \in ExpectationKeys :
     CASE k = "status" -> statusPresent(exp)
       [] k = "statusRange" -> Truthy(exp.statusRange)
       [] k = "bodyContains" -> Truthy(exp.bodyContains)
       [] k = "bodyExact" -> exp.bodyExact # Undefined
       [] k = "bodySchema" -> Truthy(exp.bodySchema)
       [] k = "bodyPath" -> Truthy(exp.bodyPath)
       [] k = "headers" -> Truthy(exp.headers)
       [] k = "responseTime" -> Truthy(exp.responseTime)}

Evaluated == {output.evaluated[i] : i \in 1..Len(output.evaluated)}

\* C14: the engine evaluates every assertion whose key is present and
\* reports which failed: a later assertion is still evaluated after an
\* earlier one has failed. (A responseTime of 0, whose assertion is skipped
\* by its guard, is left aside.)
C14_EveryPresentAssertionIsEvaluated ==
  (input.kind = "apiTest" /\ Ended) =>
    \A k \in PresentKeys(input.expect) :
      input.expect[k] # Num(0) => k \in Evaluated

\* What the code does instead: the first failing assertion is the last one
\* evaluated.
FirstFailureEndsTheTest ==
  (input.kind = "apiTest" /\ output.failed # "none") =>
    /\ pc = "failed"
    /\ output.evaluated[Len(output.evaluated)] = output.failed

UnparsableBodyLeavesNoAttachment ==
  (input.kind = "apiTest" /\ output.thrown = "SyntaxError") =>
    output.attachments = << >>

(***************************************************************************)
(* api-runner, ui-runner: a suite in one worker process                    *)
(***************************************************************************)
MaxSuiteTests == 2

\* loadTestFile: the error it throws, or the parsed document. validates is
\* what validateTestData (the schema validator) says of the document.
loadWithoutValidation(file) ==
  IF ~file.exists THEN [thrown |-> "Test data file not found"]
  ELSE IF ~file.parses THEN [thrown |-> "SyntaxError"]
  ELSE [thrown |-> "none", raw |-> file.document]

loadTestFile(file) ==
  IF ~file.exists THEN [thrown |-> "Test data file not found"]
  ELSE IF ~file.parses THEN [thrown |-> "SyntaxError"]
  ELSE IF ~file.validates THEN [thrown |-> "Schema validation failed"]
  ELSE [thrown |-> "none", raw |-> file.document]

\* const fn = tc.skip ? test.skip : tc.only ? test.only : test
registrar(tc) ==
  IF Truthy(tc.skip) THEN "test.skip"
  ELSE IF Truthy(tc.only) THEN "test.only" ELSE "test"

\* The test cases the describe callback registers, in loop order.
registerTests(tests) ==
  [i \in 1..Len(tests) |-> [tc |-> tests[i], fn |-> registrar(tests[i])]]

\* The hooks the describe callback registers: only the API runner reads
\* suite.setup and suite.teardown.
registerHooks(runner, suite) ==
  IF runner = "api"
  THEN (IF Truthy(suite.setup) THEN {"beforeAll"} ELSE {})
         \cup (IF Truthy(suite.teardown) THEN {"afterAll"} ELSE {})
  ELSE {}

\* { ...vars } : the merge that leaves the injection out.
spreadFirstOnly(a, b) == a

\* { ...vars, ...(tc.dataInjection ?? {}) }
ObjectSpread(a, b) ==
  [k \in DOMAIN a \cup DOMAIN b |-> IF k \in DOMAIN b THEN b[k] ELSE a[k]]

\* vars[key] = value
assignProperty(obj, key, value) ==
  [k \in DOMAIN obj \cup {key} |-> IF k = key THEN value ELSE obj[k]]

\* tc.dataInjection ?? {}
injectionOf(tc) ==
  IF IsNullish(tc.dataInjection) THEN << >> ELSE tc.dataInjection.v

\* The host runs a registered test unless it was registered with test.skip,
\* or with test when some test was registered with test.only.
runs(registered, i) ==
  /\ registered[i].fn # "test.skip"
  /\ (\E j \in 1..Len(registered) : registered[j].fn = "test.only")
       => registered[i].fn = "test.only"

\* The host starts the tests of a describe block once its beforeAll hooks
\* have completed.
mayStartTestEarly(p) == p \in {"registered", "setupFetched", "ready"}
mayStartTest(p) == p = "ready"

\* headers['Authorization'] = `Bearer ${resolved.auth}` when resolved.auth
\* is truthy.
Bearer == << "B", "e", "a", "r", "e", "r", " " >>
authorizationOf(resolved) ==
  IF "auth" \in DOMAIN resolved.v /\ Truthy(resolved.v["auth"])
  THEN Str(Bearer \o JsToString(resolved.v["auth"]))
  ELSE Undefined

(***************************************************************************)
(* Inputs of a suite run                                                   *)
(***************************************************************************)
TokenId == << "a" >>
TokenText == << "t", "o", "k" >>

\* The interpolated part of a test case: auth uses the token, body the
\* other variable.
TestDocument ==
  Obj([k \in {"auth", "body"} |->
         IF k = "auth" THEN Str(PlaceholderA) ELSE Str(PlaceholderB)])

Injections ==
  { Obj([k \in {TokenId} |-> << "x" >>]) }

SuiteTest(name, tags, skip, only, dataInjection) ==
  [name |-> name, tags |-> tags, skip |-> skip, only |-> only,
   dataInjection |-> dataInjection, doc |-> TestDocument]

\* The kinds of test case: plain, tagged, with an injection, tagged with an
\* injection, skipped, focused.
TestVariants ==
  {[tags |-> tg, skip |-> Undefined, only |-> Undefined,
    dataInjection |-> inj] :
     tg \in Optional({Arr(<<"smoke">>)}), inj \in Optional(Injections)}
  \cup {[tags |-> Undefined, skip |-> Bool(TRUE), only |-> Undefined,
          dataInjection |-> Undefined],
         [tags |-> Undefined, skip |-> Undefined, only |-> Bool(TRUE),
          dataInjection |-> Undefined]}

SuiteTestLists ==
  UNION {{[i \in 1..n |->
             SuiteTest(i, v[i].tags, v[i].skip, v[i].only, v[i].dataInjection)] :
            v \in [1..n -> TestVariants]} : n \in 0..MaxSuiteTests}

ExtractToken == [t |-> "object", fromPath |-> <<"a">>, as |-> TokenId]
Setups ==
  { [t |-> "object", extractToken |-> Undefined],
    [t |-> "object", extractToken |-> ExtractToken] }

\* What the host answers to the setup call: no answer (fetch throws), or a
\* status and a body text.
SetupAnswers ==
  { [arrives |-> FALSE, status |-> 0, raw |-> RawEmpty],
    [arrives |-> TRUE, status |-> 200, raw |-> << "{", "\"", "a", "\"", ":",
                                                  "\"", "t", "o", "k", "\"", "}" >>],
    [arrives |-> TRUE, status |-> 200, raw |-> RawObjectA],
    [arrives |-> TRUE, status |-> 200, raw |-> << "{", "}" >>],
    [arrives |-> TRUE, status |-> 200, raw |-> RawEmpty],
    [arrives |-> TRUE, status |-> 401, raw |-> << "{", "}" >>] }

\* JSON.parse of the setup answers.
setupJson(raw) ==
  CASE raw = RawObjectA -> BodyA
    [] raw = << "{", "}" >> -> Obj(<< >>)
    [] raw = RawEmpty -> SyntaxError
    [] OTHER -> Obj([k \in {KeyA} |-> Str(TokenText)])

SuiteFiles ==
  {[exists |-> e, parses |-> p, validates |-> v] :
     e \in BOOLEAN, p \in BOOLEAN, v \in BOOLEAN}

(***************************************************************************)
(* Specification of a suite run                                            *)
(***************************************************************************)
InitSuite ==
  /\ input \in {[kind |-> "suite", runner |-> r, tagFilter |-> ft,
                 file |-> [exists |-> f.exists, parses |-> f.parses,
                           validates |-> f.validates,
                           document |-> [setup |-> su, teardown |-> td,
                                         tests |-> ts]],
                 answer |-> an] :
                  r \in {"api", "ui"}, ft \in {<< >>, << "smoke" >>},
                  f \in SuiteFiles, su \in Optional(Setups),
                  td \in Optional({[t |-> "object"]}),
                  ts \in SuiteTestLists, an \in SetupAnswers}
  \* one file for each way of failing to load
  /\ ~input.file.exists => (~input.file.parses /\ ~input.file.validates)
  /\ ~input.file.parses => ~input.file.validates
  \* the answer matters when the setup call is made
  /\ (input.runner = "ui" \/ input.file.document.setup = Undefined)
       => ~input.answer.arrives
  \* a document that does not load is never looked into
  /\ ~input.file.validates =>
       (input.file.document.setup = Undefined
          /\ input.file.document.teardown = Undefined)
  /\ output = [fn |-> "suite", thrown |-> "none", registered |-> << >>, hooks |-> {},
               store |-> << >>, log |-> << >>, next |-> 1, blocked |-> FALSE]
  /\ pc = "start"

\* runApiSuite / runUiSuite: load, filter, register hooks and test cases.
RunSuite ==
  /\ input.kind = "suite"
  /\ pc = "start"
  /\ LET loaded == loadTestFile(input.file) IN
       IF loaded.thrown # "none"
       THEN /\ output' = [output EXCEPT !.thrown = loaded.thrown]
            /\ pc' = "aborted"
       ELSE LET suite == loaded.raw
                tests_ == filterByTags(suite.tests, input.tagFilter)
                hooks == registerHooks(input.runner, suite)
            IN /\ output' = [output EXCEPT !.registered = registerTests(tests_),
                                           !.hooks = hooks]
               /\ pc' = IF "beforeAll" \in hooks THEN "registered" ELSE "ready"
  /\ UNCHANGED input

\* beforeAll, up to the answer of the setup call: a fetch that throws fails
\* the hook, and the host fails the tests of the suite.
BeforeAllFetch ==
  /\ input.kind = "suite"
  /\ pc = "registered"
  /\ IF input.answer.arrives
     THEN /\ output' = [output EXCEPT !.log = Append(@, [kind |-> "setup"])]
          /\ pc' = "setupFetched"
     ELSE /\ output' = [output EXCEPT !.log = Append(@, [kind |-> "setup"]),
                                      !.blocked = TRUE,
                                      !.thrown = "fetch"]
          /\ pc' = "ready"
  /\ UNCHANGED input

\* beforeAll, after the answer: the token is stored when it is a string.
BeforeAllExtract ==
  /\ input.kind = "suite"
  /\ pc = "setupFetched"
  /\ LET setup == input.file.document.setup IN
       IF Truthy(setup.extractToken)
       THEN LET body == setupJson(input.answer.raw) IN
            IF body = SyntaxError
            THEN output' = [output EXCEPT !.blocked = TRUE,
                                          !.thrown = "SyntaxError"]
            ELSE LET val == deepGet(body, setup.extractToken.fromPath) IN
                 IF TypeOf(val) = "string"
                 THEN output' =
                        [output EXCEPT
                           !.store = assignProperty(@, setup.extractToken.as,
                                                    val.v)]
                 ELSE output' = output
       ELSE output' = output
  /\ pc' = "ready"
  /\ UNCHANGED input

\* The next registered test case: the host passes over it when it does not
\* run it, fails it when the suite's beforeAll failed, and else calls its
\* function, which resolves the test case with its own variables.
RunTest ==
  /\ input.kind = "suite"
  /\ mayStartTest(pc)
  /\ output.next <= Len(output.registered)
  /\ LET tc == output.registered[output.next].tc
         localVars == ObjectSpread(output.store, injectionOf(tc))
         resolved == interpolate(tc.doc, localVars)
     IN IF ~runs(output.registered, output.next)
        THEN output' = [output EXCEPT !.next = @ + 1]
        ELSE IF output.blocked
        THEN output' = [output EXCEPT
                          !.next = @ + 1,
                          !.log = Append(@, [kind |-> "blocked",
                                             test |-> tc.name])]
        ELSE output' = [output EXCEPT
                          !.next = @ + 1,
                          !.log = Append(@,
                                    [kind |-> "test", test |-> tc.name,
                                     localVars |-> localVars,
                                     resolved |-> resolved,
                                     authorization |->
                                       IF input.runner = "api"
                                       THEN authorizationOf(resolved)
                                       ELSE Undefined])]
  /\ pc' = pc
  /\ UNCHANGED input

\* afterAll: the teardown call, when the suite declares one.
AfterAll ==
  /\ input.kind = "suite"
  /\ pc = "ready"
  /\ output.next > Len(output.registered)
  /\ output' = IF "afterAll" \in output.hooks
               THEN [output EXCEPT !.log = Append(@, [kind |-> "teardown"])]
               ELSE output
  /\ pc' = "finished"
  /\ UNCHANGED input

NextSuite ==
  \/ RunSuite
  \/ BeforeAllFetch
  \/ BeforeAllExtract
  \/ RunTest
  \/ AfterAll

SpecSuite == InitSuite /\ [][NextSuite]_vars

\* The events of the log that are test functions called by the host.
TestCalls == {i \in 1..Len(output.log) : output.log[i].kind = "test"}

\* The variables a test case of the document declares for itself.
Declared(tc) ==
  IF tc.dataInjection = Undefined THEN << >> ELSE tc.dataInjection.v

\* The text that {{a}} resolves to under a variable map.
ResolvedTokenText(vs) == IF TokenId \in DOMAIN vs THEN vs[TokenId] ELSE PlaceholderA

\* C16: the variables of a test case are the suite store overridden by the
\* case's dataInjection, and executing a test case leaves the store
\* unchanged, so no test case observes another one's injection.
C16_TestVariablesOverrideWithoutWriting ==
  [][(input.kind = "suite" /\ output'.next = output.next + 1) =>
       /\ output'.store = output.store
       /\ TestCalls' # TestCalls =>
            LET e == output'.log[Len(output'.log)]
                own == Declared(input.file.document.tests[e.test])
            IN /\ DOMAIN e.localVars = DOMAIN output.store \cup DOMAIN own
               /\ \A k \in DOMAIN e.localVars :
                    e.localVars[k] =
                      IF k \in DOMAIN own THEN own[k] ELSE output.store[k]
               /\ e.resolved.v["auth"] = Str(ResolvedTokenText(e.localVars))]_vars

\* C16 witness: with the token in the store, a test case that injects its
\* own value for the token's name has run, and after it a test case
\* without injection, which got the token.
C16_Witness ==
  /\ input.kind = "suite"
  /\ TokenId \in DOMAIN output.store
  /\ output.store[TokenId] = TokenText
  /\ \E i \in TestCalls : \E j \in TestCalls :
       /\ i < j
       /\ output.log[i].resolved.v["auth"] = Str(<< "x" >>)
       /\ output.log[j].resolved.v["auth"] = Str(TokenText)

\* The suite is an API suite whose beforeAll hook is registered.
HasSetup ==
  input.kind = "suite" /\ input.runner = "api" /\ "beforeAll" \in output.hooks

\* The host has taken up a registered test case.
TestsBegun ==
  \/ output.next > 1
  \/ \E i \in 1..Len(output.log) : output.log[i].kind \in {"test", "blocked"}

\* The setup call was made and the hook has returned or thrown.
SetupCompleted ==
  /\ pc \in {"ready", "finished"}
  /\ output.log # << >>
  /\ output.log[1].kind = "setup"

SetupFailed ==
  /\ HasSetup
  /\ SetupCompleted
  /\ LET setup == input.file.document.setup
         answer == input.answer
     IN \/ ~answer.arrives
        \/ answer.status >= 400
        \/ /\ setup.extractToken # Undefined
           /\ \/ setupJson(answer.raw) = SyntaxError
              \/ deepGet(setupJson(answer.raw), setup.extractToken.fromPath).t
                   # "string"

\* C18: a setup error is fatal: when the setup call fails, or extractToken
\* is declared and the value at fromPath is not a string, no test case
\* sends its request as if setup had succeeded; every one is failed or
\* blocked.
C18_SetupErrorIsFatal ==
  SetupFailed => TestCalls = {}

\* What the host does for a hook that throws: the tests are failed without
\* being called.
ThrowingSetupBlocksTests ==
  (HasSetup /\ output.thrown \in {"fetch", "SyntaxError"}) => TestCalls = {}

\* C19: the document is validated at load time before any test case is
\* registered: on a missing file, malformed JSON or a schema violation the
\* runner aborts and registers nothing; on success the registered test
\* cases are exactly the tag-filtered tests of the document, in document
\* order.
C19_LoadValidatesBeforeRegistering ==
  (input.kind = "suite" /\ pc # "start") =>
    LET file == input.file
        tests == file.document.tests
        r == output.registered
    IN IF ~(file.exists /\ file.parses /\ file.validates)
       THEN /\ pc = "aborted"
            /\ r = << >>
            /\ output.hooks = {}
            /\ output.log = << >>
       ELSE /\ pc # "aborted"
            /\ \A j \in 1..Len(r) : r[j].tc = tests[r[j].tc.name]
            /\ \A j \in 1..Len(r) - 1 : r[j].tc.name < r[j + 1].tc.name
            /\ {r[j].tc.name : j \in 1..Len(r)} =
                 IF input.tagFilter = << >> THEN 1..Len(tests)
                 ELSE PassingTests(tests, input.tagFilter)

\* C19 witness: a document of two test cases that violates the schema was
\* loaded, and the runner aborted.
C19_Witness ==
  /\ input.kind = "suite"
  /\ pc = "aborted"
  /\ output.thrown = "Schema validation failed"
  /\ Len(input.file.document.tests) = 2
  /\ output.registered = << >>

\* On success with a tag filter, an untagged test case is left out and the
\* tagged one is registered.
RegistersTheTaggedTests ==
  /\ input.kind = "suite"
  /\ pc = "ready"
  /\ input.tagFilter # << >>
  /\ Len(input.file.document.tests) = 2
  /\ Len(output.registered) = 1
  /\ output.registered[1].tc.name = 2

\* C27: both runners run the optional setup and teardown: in a suite whose
\* document declares setup, the setup is executed before the first test
\* case begins, and in one that declares teardown, the teardown is executed
\* after the last test case has ended, in a UI suite as in an API suite.
C27_BothRunnersRunSetupAndTeardown ==
  (input.kind = "suite" /\ pc \notin {"start", "aborted"}) =>
    LET document == input.file.document
        log == output.log
    IN /\ (Truthy(document.setup) /\ TestsBegun) =>
            (log # << >> /\ log[1].kind = "setup")
       /\ (Truthy(document.teardown) /\ pc = "finished") =>
            (log # << >> /\ log[Len(log)].kind = "teardown")

\* The API runner runs the setup before the first test case and the
\* teardown after the last one.
ApiRunnerRunsSetupAndTeardown ==
  (input.kind = "suite" /\ input.runner = "api"
     /\ pc \notin {"start", "aborted"}) =>
    LET document == input.file.document
        log == output.log
    IN /\ (Truthy(document.setup) /\ TestsBegun) =>
            (log # << >> /\ log[1].kind = "setup")
       /\ (Truthy(document.teardown) /\ pc = "finished") =>
            (log # << >> /\ log[Len(log)].kind = "teardown")

\* A UI suite that declares setup and teardown has run its two test cases
\* and finished, and neither setup nor teardown was executed.
UiSuiteFinishedWithoutSetupOrTeardown ==
  /\ input.kind = "suite"
  /\ input.runner = "ui"
  /\ Truthy(input.file.document.setup)
  /\ Truthy(input.file.document.teardown)
  /\ pc = "finished"
  /\ Len(output.log) = 2
  /\ \A i \in 1..2 : output.log[i].kind = "test"

(***************************************************************************)
(* ui-runner: one test case (viewport, navigation, steps, snapshot)        *)
(***************************************************************************)
MaxSteps == 3

\* The case labels of executeAction.
KnownActions ==
  { "goto", "click", "fill", "select", "check", "uncheck", "hover", "press",
    "scroll", "upload", "evaluate", "wait", "waitForSelector", "waitForURL",
    "assertVisible", "assertHidden", "assertText", "assertValue",
    "assertURL", "assertTitle", "assertCount", "screenshot" }

\* The page or expect method each case of executeAction calls; "none" in
\* the default case.
pageOperation(action) ==
  CASE action.action = "goto" -> "page.goto"
    [] action.action = "click" -> "locator.click"
    [] action.action = "fill" -> "locator.fill"
    [] action.action = "select" -> "locator.selectOption"
    [] action.action = "check" -> "locator.check"
    [] action.action = "uncheck" -> "locator.uncheck"
    [] action.action = "hover" -> "locator.hover"
    [] action.action = "press" -> "locator.press"
    [] action.action = "scroll" -> "scrollIntoViewIfNeeded or page.evaluate"
    [] action.action = "upload" -> "locator.setInputFiles"
    [] action.action = "evaluate" -> "page.evaluate"
    [] action.action = "wait" -> "page.waitForTimeout"
    [] action.action = "waitForSelector" -> "page.waitForSelector"
    [] action.action = "waitForURL" -> "page.waitForURL"
    [] action.action = "assertVisible" -> "toBeVisible"
    [] action.action = "assertHidden" -> "toBeHidden"
    [] action.action = "assertText" -> "toContainText"
    [] action.action = "assertValue" -> "toHaveValue"
    [] action.action = "assertURL" -> "toHaveURL"
    [] action.action = "assertTitle" -> "toHaveTitle"
    [] action.action = "assertCount" -> "toHaveCount"
    [] action.action = "screenshot" -> "page.screenshot"
    [] OTHER -> "none"

\* executeAction that swallows every error.
executeActionSwallowing(action) == "ok"

\* executeAction whose default case does nothing.
executeActionSilentDefault(action) ==
  IF action.action \notin KnownActions \/ action.succeeds THEN "ok"
  ELSE "host"

\* executeAction(page, action): what it throws, "ok" when it returns. succeeds
\* is what the page does with the call of a known action.
executeAction(action) ==
  IF action.action \notin KnownActions
  THEN "Unknown UI action: \"" \o action.action \o "\""
  ELSE IF action.succeeds THEN "ok" ELSE "host"

\* use.screenshot of the configuration: with features.screenshots the host
\* attaches a screenshot of the viewport to a test that failed.
hostScreenshot(screenshots, attachments) ==
  IF screenshots
  THEN Append(attachments, [name |-> "screenshot", fullPage |-> FALSE])
  ELSE attachments

\* A host call of the test function outside the steps: absent, made and
\* returned, or made and thrown.
hostCall(declared) ==
  IF ~Truthy(declared) THEN "skipped"
  ELSE IF declared.succeeds THEN "ok" ELSE "host"

UiStep(action, succeeds) == [action |-> action, succeeds |-> succeeds]

UiSteps ==
  { UiStep("click", TRUE), UiStep("click", FALSE), UiStep("assertText", TRUE),
    UiStep("assertText", FALSE), UiStep("dance", TRUE) }

\* viewport, url and snapshot of a test case, with what the page does.
HostCalls == {[t |-> "object", succeeds |-> s] : s \in BOOLEAN}

(***************************************************************************)
(* Specification of one UI test case                                       *)
(***************************************************************************)
InitUiTest ==
  /\ input \in {[kind |-> "uiTest", viewport |-> v, url |-> u, steps |-> s,
                 snapshot |-> sn, screenshots |-> f] :
                  v \in Optional(HostCalls), u \in Optional(HostCalls),
                  s \in SeqsUpTo(UiSteps, MaxSteps),
                  sn \in Optional(HostCalls), f \in BOOLEAN}
  /\ output = [fn |-> "uiTest", executed |-> << >>, ops |-> << >>,
               calls |-> << >>, thrown |-> "none", status |-> "passed",
               attachments |-> << >>]
  /\ pc = "start"

\* A host call of the test function: a throw ends the function, and the
\* host marks the test failed.
UiCall(name, declared, next) ==
  LET result == hostCall(declared) IN
    /\ output' =
         IF result = "skipped" THEN output
         ELSE IF result = "ok" THEN [output EXCEPT !.calls = Append(@, name)]
         ELSE [output EXCEPT !.calls = Append(@, name), !.thrown = result,
                             !.status = "failed",
                             !.attachments =
                               hostScreenshot(input.screenshots, @)]
    /\ pc' = IF result \in {"skipped", "ok"} THEN next ELSE "failed"
    /\ UNCHANGED input

SetViewport ==
  /\ input.kind = "uiTest"
  /\ pc = "start"
  /\ UiCall("setViewportSize", input.viewport, "goto")

Goto ==
  /\ input.kind = "uiTest"
  /\ pc = "goto"
  /\ UiCall("goto", input.url, "steps")

\* One turn of the loop over the steps.
Step ==
  /\ input.kind = "uiTest"
  /\ pc = "steps"
  /\ Len(output.executed) < Len(input.steps)
  /\ LET i == Len(output.executed) + 1
         result == executeAction(input.steps[i])
         op == pageOperation(input.steps[i])
     IN IF result = "ok"
        THEN /\ output' = [output EXCEPT !.executed = Append(@, i),
                                         !.ops = Append(@, op)]
             /\ pc' = "steps"
        ELSE /\ output' = [output EXCEPT !.executed = Append(@, i),
                                         !.ops = Append(@, op),
                                         !.thrown = result,
                                         !.status = "failed",
                                         !.attachments =
                                           hostScreenshot(input.screenshots, @)]
             /\ pc' = "failed"
  /\ UNCHANGED input

\* The snapshot comparison after the loop.
Snapshot ==
  /\ input.kind = "uiTest"
  /\ pc = "steps"
  /\ Len(output.executed) = Len(input.steps)
  /\ UiCall("toHaveScreenshot", input.snapshot, "check")

\* if (testInfo.status !== testInfo.expectedStatus): the screenshot on
\* failure, at the end of the test function.
FailureScreenshot ==
  /\ input.kind = "uiTest"
  /\ pc = "check"
  /\ output' = IF output.status # "passed"
               THEN [output EXCEPT !.attachments =
                                     Append(@, [name |-> "failure-screenshot",
                                                fullPage |-> TRUE])]
               ELSE output
  /\ pc' = "passed"
  /\ UNCHANGED input

NextUiTest ==
  \/ SetViewport
  \/ Goto
  \/ Step
  \/ Snapshot
  \/ FailureScreenshot

SpecUiTest == InitUiTest /\ [][NextUiTest]_vars

\* A step the page or the dispatcher rejects.
StepFails(s) == s.action \notin KnownActions \/ ~s.succeeds

\* C20: the steps of a UI test case execute strictly in declaration order
\* and the first failing step aborts the rest: step i+1 starts only after
\* step i has completed successfully, and after a failing step no later
\* step and no snapshot comparison is executed.
C20_StepsInOrderFailFast ==
  input.kind = "uiTest" =>
    LET done == output.executed IN
      /\ \A j \in 1..Len(done) : done[j] = j
      /\ \A j \in 1..Len(done) - 1 : ~StepFails(input.steps[j])
      /\ \A j \in 1..Len(done) :
           StepFails(input.steps[j]) =>
             /\ j = Len(done)
             /\ pc = "failed"
             /\ \A c \in 1..Len(output.calls) :
                  output.calls[c] # "toHaveScreenshot"

\* C20 witness: of three steps the second has failed; the third and the
\* declared snapshot comparison were not executed.
C20_Witness ==
  /\ input.kind = "uiTest"
  /\ Len(input.steps) = 3
  /\ ~StepFails(input.steps[1])
  /\ StepFails(input.steps[2])
  /\ ~StepFails(input.steps[3])
  /\ input.snapshot # Undefined
  /\ output.executed = << 1, 2 >>
  /\ pc = "failed"

\* C21: a step whose action is not a case label of executeAction performs
\* no page operation and fails the test case at once, with an error that
\* names the action as unknown; the step is never passed over silently.
C21_UnknownActionFails ==
  input.kind = "uiTest" =>
    \A j \in 1..Len(output.executed) :
      input.steps[j].action \notin KnownActions =>
        /\ output.ops[j] = "none"
        /\ j = Len(output.executed)
        /\ pc = "failed"
        /\ output.status = "failed"
        /\ output.thrown =
             "Unknown UI action: \"" \o input.steps[j].action \o "\""

\* C21 witness: after a click that succeeded, the unknown action of the
\* second step has ended the test; the click is the only page operation.
C21_Witness ==
  /\ input.kind = "uiTest"
  /\ Len(input.steps) = 3
  /\ input.steps[1] = UiStep("click", TRUE)
  /\ input.steps[2].action \notin KnownActions
  /\ output.ops = << "locator.click", "none" >>
  /\ output.thrown = "Unknown UI action: \"dance\""
  /\ pc = "failed"

\* C22: whenever a UI test case has failed, a full-page failure screenshot
\* is among its attachments.
C22_FailureScreenshotAttached ==
  (input.kind = "uiTest" /\ output.status = "failed") =>
    \E a \in 1..Len(output.attachments) : output.attachments[a].fullPage

\* Where the test function reaches its check of the status, the status
\* is still the expected one, so the function attaches no screenshot.
FailureScreenshotNeverTaken ==
  input.kind = "uiTest" =>
    /\ pc = "check" => output.status = "passed"
    /\ \A a \in 1..Len(output.attachments) :
         output.attachments[a].name # "failure-screenshot"

(***************************************************************************)
(* fixtures: authHeaders and apiContext around one test                    *)
(***************************************************************************)
\* A try block whose finally block runs only when the try block returned.
finallyOnReturnOnly(thrown) == thrown = "none"

\* try { ... } finally { ... }: the finally block runs whether the try block
\* returned or threw.
finallyRuns(thrown) == TRUE

\* resolveAuth(request, baseUrl, auth): the headers it returns, or the error
\* it throws. answer is what the host does with request.post and res.json().
resolveAuth(auth, answer) ==
  LET Throw(message) == [thrown |-> message, headers |-> << >>]
      Return(headers) == [thrown |-> "none", headers |-> headers]
      Field(name) ==
        IF Truthy(auth.credentials) /\ name \in DOMAIN auth.credentials.v
        THEN auth.credentials.v[name] ELSE Undefined
      Token == << "t", "o", "k", "e", "n" >>
      Data == << "d", "a", "t", "a" >>
      AccessToken == << "a", "c", "c", "e", "s", "s", "_" >> \o Token
      body == answer.json
      token ==
        Coalesce(deepGet(body, Token),
          Coalesce(deepGet(body, Data \o << "." >> \o Token),
            Coalesce(deepGet(body, AccessToken),
                     deepGet(body, Data \o << "." >> \o AccessToken))))
  IN CASE auth.strategy = "bearer" ->
            IF ~Truthy(auth.tokenEndpoint) \/ ~Truthy(auth.credentials)
            THEN Throw("Bearer strategy requires tokenEndpoint and credentials")
            ELSE IF ~answer.arrives THEN Throw("host")
            ELSE IF ~answer.ok THEN Throw("Auth request failed")
            ELSE IF body = SyntaxError THEN Throw("SyntaxError")
            ELSE IF ~Truthy(token)
              THEN Throw("Could not extract token from auth response")
            ELSE Return([Authorization |-> [scheme |-> "Bearer", of |-> token]])
       [] auth.strategy = "basic" ->
            IF ~Truthy(Field("username")) \/ ~Truthy(Field("password"))
            THEN Throw("Basic strategy requires username and password")
            ELSE Return([Authorization |->
                           [scheme |-> "Basic",
                            base64 |-> << Field("username"), ":",
                                          Field("password") >>]])
       [] auth.strategy = "api-key" ->
            LET key == Coalesce(auth.apiKey, Field("apiKey")) IN
              IF ~Truthy(key)
              THEN Throw("api-key strategy requires apiKey or credentials.apiKey")
              ELSE Return([h \in {IF IsNullish(auth.headerName)
                                  THEN "X-API-Key" ELSE auth.headerName.v}
                             |-> key])
       [] OTHER -> Return(<< >>)

(***************************************************************************)
(* Inputs of a fixture run: the auth configuration, the token endpoint's   *)
(* answer, the fixtures the test asks for, the outcome of its body         *)
(***************************************************************************)
AuthConfig(strategy, tokenEndpoint, credentials, apiKey) ==
  [strategy |-> strategy, tokenEndpoint |-> tokenEndpoint,
   credentials |-> credentials, apiKey |-> apiKey, headerName |-> Undefined]

Secret == Str(<< "s" >>)

Credentials ==
  { Obj(<< >>), Obj([k \in {"username"} |-> Secret]),
    Obj([k \in {"username", "password"} |-> Secret]),
    Obj([k \in {"apiKey"} |-> Secret]) }

AuthConfigs ==
  { AuthConfig(s, e, c, k) :
      s \in {"none", "bearer", "basic", "api-key"},
      e \in Optional({Str(<< "/", "l" >>)}),
      c \in Optional(Credentials),
      k \in Optional({Secret}) }

\* The bodies of the token endpoint: the token at each of the four places
\* resolveAuth looks at, an empty token, no token, a null data.
TokenBodies ==
  LET Token == << "t", "o", "k", "e", "n" >>
      Data == << "d", "a", "t", "a" >>
      AccessToken == << "a", "c", "c", "e", "s", "s", "_" >> \o Token
  IN { Obj([k \in {Token} |-> Secret]),
       Obj([k \in {Data} |-> Obj([j \in {Token} |-> Secret])]),
       Obj([k \in {AccessToken} |-> Secret]),
       Obj([k \in {Data} |-> Obj([j \in {AccessToken} |-> Secret])]),
       Obj([k \in {Token} |-> Str(<< >>)]),
       Obj([k \in {Data} |-> Null]),
       Obj(<< >>) }

AuthAnswers ==
  { [arrives |-> FALSE, ok |-> FALSE, json |-> SyntaxError],
    [arrives |-> TRUE, ok |-> FALSE, json |-> Obj(<< >>)],
    [arrives |-> TRUE, ok |-> TRUE, json |-> SyntaxError] }
    \cup {[arrives |-> TRUE, ok |-> TRUE, json |-> b] : b \in TokenBodies}

(***************************************************************************)
(* Specification of the fixtures around one test                           *)
(***************************************************************************)
InitFixtures ==
  /\ input \in {[kind |-> "fixtures", auth |-> a, answer |-> r,
                 wantsApiContext |-> w, bodyPasses |-> b] :
                  a \in AuthConfigs, r \in AuthAnswers,
                  w \in BOOLEAN, b \in BOOLEAN}
  /\ (input.auth.strategy # "bearer"
        \/ ~Truthy(input.auth.tokenEndpoint)
        \/ ~Truthy(input.auth.credentials))
       => input.answer = [arrives |-> FALSE, ok |-> FALSE,
                          json |-> SyntaxError]
  /\ output = [fn |-> "fixtures", acquired |-> << >>, open |-> {},
               headers |-> << >>, thrown |-> "none", status |-> "none"]
  /\ pc = "start"

\* authHeaders up to resolveAuth: strategy 'none' acquires nothing.
AuthHeadersSetup ==
  /\ input.kind = "fixtures"
  /\ pc = "start"
  /\ IF input.auth.strategy = "none"
     THEN /\ output' = output
          /\ pc' = "authUsed"
     ELSE /\ output' = [output EXCEPT !.acquired = Append(@, "authHeaders"),
                                      !.open = @ \cup {"authHeaders"}]
          /\ pc' = "resolveAuth"
  /\ UNCHANGED input

\* The try block of authHeaders: resolveAuth, then use(result.headers).
ResolveAuth ==
  /\ input.kind = "fixtures"
  /\ pc = "resolveAuth"
  /\ LET result == resolveAuth(input.auth, input.answer) IN
       IF result.thrown = "none"
       THEN /\ output' = [output EXCEPT !.headers = result.headers]
            /\ pc' = "authUsed"
       ELSE /\ output' = [output EXCEPT !.thrown = result.thrown,
                                        !.status = "failed"]
            /\ pc' = "authTeardown"
  /\ UNCHANGED input

\* apiContext up to use(ctx), for a test that asks for it.
ApiContextSetup ==
  /\ input.kind = "fixtures"
  /\ pc = "authUsed"
  /\ IF input.wantsApiContext
     THEN output' = [output EXCEPT !.acquired = Append(@, "apiContext"),
                                   !.open = @ \cup {"apiContext"}]
     ELSE output' = output
  /\ pc' = "body"
  /\ UNCHANGED input

\* The test body. use(...) returns to the fixture when the body has ended,
\* whether it passed or failed: the host reports the failure itself.
TestBody ==
  /\ input.kind = "fixtures"
  /\ pc = "body"
  /\ output' = [output EXCEPT !.status =
                                IF input.bodyPasses THEN "passed" ELSE "failed"]
  /\ pc' = "apiTeardown"
  /\ UNCHANGED input

\* apiContext after use(ctx): ctx.dispose().
ApiContextTeardown ==
  /\ input.kind = "fixtures"
  /\ pc = "apiTeardown"
  /\ output' = [output EXCEPT !.open = @ \ {"apiContext"}]
  /\ pc' = "authTeardown"
  /\ UNCHANGED input

\* authHeaders after its try block: the finally block disposes the context;
\* strategy 'none' has returned after use({}).
AuthHeadersTeardown ==
  /\ input.kind = "fixtures"
  /\ pc = "authTeardown"
  /\ output' = IF input.auth.strategy # "none" /\ finallyRuns(output.thrown)
               THEN [output EXCEPT !.open = @ \ {"authHeaders"}]
               ELSE output
  /\ pc' = "finished"
  /\ UNCHANGED input

NextFixtures ==
  \/ AuthHeadersSetup
  \/ ResolveAuth
  \/ ApiContextSetup
  \/ TestBody
  \/ ApiContextTeardown
  \/ AuthHeadersTeardown

SpecFixtures == InitFixtures /\ [][NextFixtures]_vars

\* C23: every request context a fixture acquired is disposed on every exit
\* path: once the fixtures have finished no context is open, after a body
\* that passed, after a body that failed, and after resolveAuth threw; and
\* a context is open only between its acquisition and its fixture's end.
C23_ContextsAreDisposed ==
  input.kind = "fixtures" =>
    /\ pc = "finished" => output.open = {}
    /\ pc = "authTeardown" => "apiContext" \notin output.open
    /\ output.open \subseteq {output.acquired[i] : i \in 1..Len(output.acquired)}

\* C23 witness: resolveAuth threw on a token endpoint's answer without a
\* token, after the temporary context was acquired; the fixture has ended.
C23_Witness ==
  /\ input.kind = "fixtures"
  /\ pc = "finished"
  /\ output.acquired = << "authHeaders" >>
  /\ output.thrown = "Could not extract token from auth response"
  /\ output.open = {}

\* Both contexts were acquired and the body failed; the fixtures have ended.
BothDisposedAfterFailedBody ==
  /\ input.kind = "fixtures"
  /\ pc = "finished"
  /\ output.acquired = << "authHeaders", "apiContext" >>
  /\ output.status = "failed"
  /\ output.thrown = "none"
  /\ output.open = {}

(***************************************************************************)
(* api-runner, ui-runner: the attempts of one test case                    *)
(***************************************************************************)
MaxRetries == 2

\* A call of the test function that goes on with the locals of the call
\* before it.
keptFrame(previous, store, tc) ==
  IF previous.attempt = 0
  THEN [attempt |-> 1,
        localVars |-> ObjectSpread(store, injectionOf(tc)),
        resolved |-> interpolate(tc.doc, ObjectSpread(store, injectionOf(tc))),
        executed |-> << >>]
  ELSE [previous EXCEPT !.attempt = @ + 1]

\* A call of the test function: localVars, resolved and the loop index are
\* locals of the call, computed from the store and the test case at entry;
\* nothing of the call before it is read.
newFrame(previous, store, tc) ==
  LET localVars == ObjectSpread(store, injectionOf(tc))
  IN [attempt |-> previous.attempt + 1,
      localVars |-> localVars,
      resolved |-> interpolate(tc.doc, localVars),
      executed |-> << >>]

\* The suite store of the worker process an attempt runs in: empty, or
\* holding the token the setup of that worker stored.
AttemptStores ==
  { << >>, [k \in {TokenId} |-> TokenText],
    [k \in {TokenId} |-> << "n", "e", "w" >>] }

NoFrame ==
  [attempt |-> 0, localVars |-> << >>, resolved |-> Undefined,
   executed |-> << >>]

(***************************************************************************)
(* Specification of the attempts of one test case                          *)
(***************************************************************************)
\* nSteps is the number of steps of a UI test case; the request and the
\* assertions of an API test case count as one step.
InitAttempts ==
  /\ input \in {[kind |-> "attempts", runner |-> r, nSteps |-> n,
                 retries |-> k,
                 tc |-> SuiteTest(1, Undefined, Undefined, Undefined, inj)] :
                  r \in {"api", "ui"}, n \in 1..MaxSteps, k \in 0..MaxRetries,
                  inj \in Optional(Injections)}
  /\ input.runner = "api" => input.nSteps = 1
  /\ output = [fn |-> "attempts", store |-> << >>, frame |-> NoFrame,
               previous |-> NoFrame, status |-> "none"]
  /\ pc = "start"

\* The host calls the test function, for the first attempt or for a retry.
\* A retry runs in a new worker process, which has loaded the suite and run
\* its setup again.
StartAttempt ==
  /\ input.kind = "attempts"
  /\ pc \in {"start", "retry"}
  /\ \E store \in AttemptStores :
       output' = [output EXCEPT !.store = store,
                                !.previous = output.frame,
                                !.frame = newFrame(output.frame, store,
                                                   input.tc)]
  /\ pc' = "steps"
  /\ UNCHANGED input

\* One step of the test function. A step that throws ends the attempt; the
\* host retries while the configured retries are not used up.
AttemptStep ==
  /\ input.kind = "attempts"
  /\ pc = "steps"
  /\ Len(output.frame.executed) < input.nSteps
  /\ \E succeeds \in BOOLEAN :
       LET i == Len(output.frame.executed) + 1 IN
         /\ output' = [output EXCEPT
                         !.frame.executed = Append(@, i),
                         !.status = IF succeeds THEN @ ELSE "failed"]
         /\ pc' = IF succeeds THEN "steps"
                  ELSE IF output.frame.attempt <= input.retries THEN "retry"
                  ELSE "failed"
  /\ UNCHANGED input

\* The test function returns after its last step.
AttemptPasses ==
  /\ input.kind = "attempts"
  /\ pc = "steps"
  /\ Len(output.frame.executed) = input.nSteps
  /\ output' = [output EXCEPT !.status = "passed"]
  /\ pc' = "passed"
  /\ UNCHANGED input

NextAttempts ==
  \/ StartAttempt
  \/ AttemptStep
  \/ AttemptPasses

SpecAttempts == InitAttempts /\ [][NextAttempts]_vars

\* C28: every attempt of a test case, the first one and every retry, runs
\* the whole test case from scratch: it computes the interpolation anew
\* from the suite store and the case's dataInjection, and it starts at the
\* first step; no interpolated value and no step progress of an earlier
\* attempt is carried into a later one.
C28_EveryAttemptStartsFromScratch ==
  /\ [](input.kind = "attempts" =>
          /\ \A j \in 1..Len(output.frame.executed) :
               output.frame.executed[j] = j
          /\ output.frame.attempt <= input.retries + 1)
  /\ [][(input.kind = "attempts"
           /\ output'.frame.attempt = output.frame.attempt + 1) =>
          LET localVars ==
                [k \in DOMAIN output'.store \cup DOMAIN Declared(input.tc) |->
                   IF k \in DOMAIN Declared(input.tc)
                   THEN Declared(input.tc)[k] ELSE output'.store[k]]
          IN /\ output'.frame.executed = << >>
             /\ output'.frame.localVars = localVars
             /\ output'.frame.resolved.v["auth"] =
                  Str(ResolvedTokenText(localVars))]_vars

\* C28 witness: the first attempt resolved the token of its worker and
\* failed at its second step; the retry, in a worker whose setup stored
\* another token, resolved that one and is at its first step again.
C28_Witness ==
  /\ input.kind = "attempts"
  /\ output.frame.attempt = 2
  /\ output.previous.executed = << 1, 2 >>
  /\ output.previous.resolved.v["auth"] = Str(TokenText)
  /\ output.frame.resolved.v["auth"] = Str(<< "n", "e", "w" >>)
  /\ output.frame.executed = << 1 >>

====
